---- MODULE Spec2Model ----
(***************************************************************************)
(* A model of the streaming segmentation and transcription-orchestration   *)
(* core of jackdoe/speak (linux/src): the ring buffer, the voice activity  *)
(* detector, the hallucination filter and the continuous-mode monitor.     *)
(*                                                                         *)
(* Each subsystem has its own specification over its own group of          *)
(* variables; the other groups stay at their initial values.               *)
(*   SpecRB   ring_buffer.h            producer/consumer under the mutex   *)
(*   SpecVAD  vad.cpp, vad.h           process / process_frame / reset     *)
(*   SpecHF   transcription_pipeline   is_hallucination on bounded texts   *)
(*   SpecPL   transcription_pipeline   start/stop and continuous_loop      *)
(*   SpecCH   transcription_pipeline   transcribe_chunked                  *)
(*   SpecWC   whisper_context          the inference mutex and load_model  *)
(*   SpecAE   audio_engine             capture loop against start and stop *)
(*   SpecRS   audio_engine             resample on bounded inputs          *)
(***************************************************************************)
EXTENDS Integers, Sequences, FiniteSets, TLC

VARIABLES
    \* ---- ring_buffer.h ----
    samples_,       \* RingBuffer::samples_
    mu_,            \* RingBuffer::mu_: "free" or the thread that holds it
    p_pc,           \* producer thread: position inside append()
    p_data,         \* append()'s argument (data, count)
    p_i,            \* how many samples of p_data insert() has copied so far
    c_pc,           \* consumer thread: position inside drain()
    c_out,          \* drain()'s local `out`
    c_count,        \* the value the last count() call returned
    appended_log,   \* history: the blocks of every completed append, in order
    drained_log,    \* history: the result of every completed drain, in order
    pending_log,    \* history: blocks appended since the last swap in drain
    drain_after_drain, \* history: TRUE iff no append acted since the last swap
    \* ---- vad.h / vad.cpp ----
    vad,            \* the VoiceActivityDetector object (fields as in vad.h)
    v_pc,           \* capture thread: "idle", or "loop" inside process()
    v_count,        \* process()'s argument count
    v_offset,       \* process()'s local offset
    v_in,           \* the samples process() has read from its argument so far
    v_out,          \* process()'s local output, returned when the loop ends
    v_last,         \* history: <<the last frame processed>>, or <<>> once the
                    \* detector was written otherwise; see FrameRecord
    v_next_id,      \* the number of samples the frame loop has read so far
                    \* (sample ids are 1, 2, ...; a disabled call numbers its
                    \* samples from here on without advancing it)
    v_resets,       \* reset() calls so far
    v_toggles,      \* writes to is_enabled so far
    g,              \* history of the session since reset(): input shape, counts
    \* ---- is_hallucination on its own ----
    hf_text,        \* the argument text, a sequence of characters
    hf_called,      \* whether is_hallucination(hf_text) has been called
    hf_result,      \* what the call returned (FALSE before it)
    \* ---- transcription_pipeline.cpp, audio_engine.cpp ----
    recording_,           \* TranscriptionPipeline::recording_
    transcribing_,        \* TranscriptionPipeline::transcribing_
    continuous_running_,  \* TranscriptionPipeline::continuous_running_
    silence_frame_count_, \* TranscriptionPipeline::silence_frame_count_
    last_context_text_,   \* TranscriptionPipeline::last_context_text_
    did_output_,          \* TranscriptionPipeline::did_output_
    ctx_,                 \* whether ctx_ holds a WhisperContext
    transcription_mode,   \* settings_.transcription_mode
    collecting_,          \* AudioEngine::collecting_
    raw_count,            \* audio_.raw_buffer().count()
    is_speaking,          \* audio_.vad().is_speaking
    m_pc,           \* monitor thread: "none", "sleep", "drain", "call", "exited"
    m_resampled,    \* continuous_loop's local resampled, as its length
    m_prompt,       \* continuous_loop's prompt_ptr: <<>> or <<the prompt>>
    s_pc,           \* the thread in stop_recording_and_transcribe(): "idle",
                    \* "join" or "call"
    s_samples,      \* stop_recording_and_transcribe()'s samples, as a length
    s_offset,       \* transcribe_chunked's offset inside the stop call
    s_all_segments, \* transcribe_chunked's all_segments inside the stop call
    commits,        \* history: the texts the monitor committed this session
    n_flushes,      \* history: Recognizer calls the monitor made
    n_bursts,       \* history: capture bursts since the raw buffer was emptied
    m_failed,       \* history: <<the result of the monitor's Recognizer call>>
                    \* from a failed call's return to the next wake-up, else <<>>
    m_text,         \* history: <<the trimmed text of the monitor's Recognizer
                    \* call>> from its return to the next wake-up, else <<>>
    s_log,          \* history of the latest stop call; see NoStopLog
    out_last,       \* history: how many outputs this session made, and who made
                    \* the latest from the audio of which drain; see NoOutput
    \* ---- transcribe_chunked on its own ----
    k_pc,           \* "idle", or "loop" inside transcribe_chunked()
    k_samples,      \* the argument samples, as its length
    k_offset,       \* the local offset
    k_all_segments, \* the local all_segments
    k_calls,        \* history: the Recognizer calls of this run, in order
    k_result,       \* <<the returned TranscriptionResult>>, <<>> before
    \* ---- whisper_context.cpp and load_model ----
    w_ctx,          \* the instance ctx_ points to, 0 for null
    w_alive,        \* the instances constructed and not destroyed
    w_mu,           \* per instance, its mu_: "free" or the thread that holds it
    w_pc,           \* per thread: "idle", "loaded" (control only), "lock"
                    \* (inside transcribe, before the lock_guard) or "infer"
    w_on,           \* per thread, the instance whose transcribe it is in, or 0
    w_loads,        \* history: load_model calls so far
    w_crashed,      \* whether the process has died
    \* ---- audio_engine.cpp: the threads around the detector ----
    cap_pc,         \* capture thread: "off", "read", "process" (inside
                    \* vad_.process) or "append"
    cap_filtered,   \* capture_loop's local filtered, as its length
    running_,       \* AudioEngine::running_
    e_pc,           \* the thread that starts and stops recording: "idle",
                    \* "start_reset" and "stop_reset" (inside vad_.reset()),
                    \* "start_drain", "recording", "stop_join",
                    \* "stop_drain", "release"
    mon_pc,         \* monitor thread: "none", "sleep", "reading" (reading
                    \* vad.is_speaking), "call" (inside a flush) or
                    \* "exited" (left its loop, not yet joined)
    mon_seen,       \* the value the monitor's last read of is_speaking gave
    keep_mic_warm,  \* settings_.keep_mic_warm
    pa_,            \* AudioEngine::pa_, as whether a stream is open
    audio_level_,   \* AudioEngine::audio_level_, in thousandths
    cap_rms,        \* capture_loop's local rms of the frame last read
    cap_reads,      \* history: frames the capture thread has read
    cap_hist,       \* history: whether a read of the open stream has failed
                    \* and whether a session has started since
    \* ---- AudioEngine::resample on its own ----
    rs_input,       \* the argument input, a sequence of sample values
    rs_from,        \* the argument from
    rs_to,          \* the argument to
    rs_called,      \* whether resample(rs_input, rs_from, rs_to) has been called
    rs_output,      \* what the call returned (<<>> before it)
    rs_reads,       \* history: the positions of input the call read
    \* ---- the threads that start and stop sessions ----
    hk_down,        \* whether the hotkey is held down
    h_pc,           \* hotkey thread inside start_recording: "idle", "begin"
                    \* (past line 33) or "armed" (past line 37)
    r_pc,           \* per release thread: "none", "delay", "flag", "join",
                    \* "joining", "stop", "decide", "call" or "output"
    continuous_thread_, \* the monitor's std::thread: "none" (not joinable),
                    \* "running" or "exited" (finished, not yet joined)
    loop_pc,        \* the monitor inside continuous_loop: "sleep", "call"
                    \* or "output"
    ev_open,        \* history: transcription_started events whose
                    \* transcription_ended has not been dispatched yet
    hk_crashed      \* whether the process has been terminated

rbVars == <<samples_, mu_, p_pc, p_data, p_i, c_pc, c_out, c_count,
            appended_log, drained_log, pending_log, drain_after_drain>>

vadVars == <<vad, v_pc, v_count, v_offset, v_in, v_out, v_last, v_next_id,
            v_resets, v_toggles, g>>

hfVars == <<hf_text, hf_called, hf_result>>

plVars == <<recording_, transcribing_, continuous_running_, silence_frame_count_,
            last_context_text_, did_output_, ctx_, transcription_mode,
            collecting_, raw_count, is_speaking, m_pc, m_resampled, m_prompt,
            s_pc, s_samples, s_offset, s_all_segments,
            commits, n_flushes, n_bursts, m_failed, m_text, s_log, out_last>>

chVars == <<k_pc, k_samples, k_offset, k_all_segments, k_calls, k_result>>

wcVars == <<w_ctx, w_alive, w_mu, w_pc, w_on, w_loads, w_crashed>>

aeVars == <<cap_pc, cap_filtered, running_, e_pc, mon_pc, mon_seen,
            keep_mic_warm, pa_, audio_level_, cap_rms, cap_reads, cap_hist>>

\* plVars without the four the audio engine's own specification writes.
plOther == <<recording_, transcribing_,
             silence_frame_count_, last_context_text_, did_output_, ctx_,
             transcription_mode, m_pc, m_resampled, m_prompt, s_pc, s_samples,
             s_offset, s_all_segments, commits, n_flushes, n_bursts, m_failed, m_text,
             s_log, out_last>>

rsVars == <<rs_input, rs_from, rs_to, rs_called, rs_output, rs_reads>>

hkVars == <<hk_down, h_pc, r_pc, continuous_thread_, loop_pc, ev_open,
            hk_crashed>>

\* plVars without the three the session threads' own specification writes.
plRest == <<silence_frame_count_, last_context_text_, did_output_, ctx_,
            transcription_mode, collecting_, raw_count, is_speaking, m_pc,
            m_resampled, m_prompt, s_pc, s_samples, s_offset, s_all_segments,
            commits, n_flushes, n_bursts, m_failed, m_text, s_log, out_last>>

vars == <<rbVars, vadVars, hfVars, plVars, chVars, wcVars, aeVars, rsVars,
          hkVars>>

\* What a specification of one group leaves alone.
exceptRB  == <<vadVars, hfVars, plVars, chVars, wcVars, aeVars, rsVars,
              hkVars>>
exceptVAD == <<rbVars, hfVars, plVars, chVars, wcVars, aeVars, rsVars,
              hkVars>>
exceptHF  == <<rbVars, vadVars, plVars, chVars, wcVars, aeVars, rsVars,
              hkVars>>
exceptPL  == <<rbVars, vadVars, hfVars, chVars, wcVars, aeVars, rsVars,
              hkVars>>
exceptCH  == <<rbVars, vadVars, hfVars, plVars, wcVars, aeVars, rsVars,
              hkVars>>
exceptWC  == <<rbVars, vadVars, hfVars, plVars, chVars, aeVars, rsVars,
              hkVars>>
exceptAE  == <<rbVars, vadVars, hfVars, plOther, chVars, wcVars, rsVars,
              hkVars>>
exceptRS  == <<rbVars, vadVars, hfVars, plVars, chVars, wcVars, aeVars,
              hkVars>>
exceptHK  == <<rbVars, vadVars, hfVars, plRest, chVars, wcVars, aeVars,
              rsVars>>

(***************************************************************************)
(* Helpers on sequences.                                                   *)
(***************************************************************************)
RECURSIVE Flatten(_)
Flatten(ss) == IF ss = <<>> THEN <<>> ELSE Head(ss) \o Flatten(Tail(ss))

\* The last n elements of s (all of s when it is shorter).
LastN(s, n) == IF Len(s) <= n THEN s ELSE SubSeq(s, Len(s) - n + 1, Len(s))

\* The first n elements of s (all of s when it is shorter).
FirstN(s, n) == IF Len(s) <= n THEN s ELSE SubSeq(s, 1, n)

IsSuffix(t, s) == Len(t) <= Len(s) /\ LastN(s, Len(t)) = t

Min(a, b) == IF a <= b THEN a ELSE b

\* All sequences over S of length lo..hi.
SeqsOf(S, lo, hi) == UNION {[1..n -> S] : n \in lo..hi}

(***************************************************************************)
(* Ring buffer (ring_buffer.h).  append and drain each take mu_ for their  *)
(* whole body; vector::insert copies the block sample by sample.           *)
(***************************************************************************)
MaxBlock    == 2      \* longest block one append() call carries
MaxAppended == 4      \* samples appended over a run
MaxDrains   == 3      \* drain() calls over a run
SampleVals  == {0, 1}

RBInit ==
    /\ samples_ = <<>>
    /\ mu_ = "free"
    /\ p_pc = "idle" /\ p_data = <<>> /\ p_i = 0
    /\ c_pc = "idle" /\ c_out = <<>> /\ c_count = 0
    /\ appended_log = <<>> /\ drained_log = <<>>
    /\ pending_log = <<>> /\ drain_after_drain = FALSE

\* append(data, count), line 12: std::lock_guard lk(mu_)
AppendLock ==
    /\ p_pc = "idle"
    /\ mu_ = "free"
    /\ \E blk \in SeqsOf(SampleVals, 1, MaxBlock) :
          /\ Len(Flatten(appended_log)) + Len(blk) <= MaxAppended
          /\ p_data' = blk
    /\ mu_' = "producer"
    /\ p_i' = 0
    /\ p_pc' = "insert"
    /\ UNCHANGED <<samples_, c_pc, c_out, c_count, appended_log, drained_log,
                   pending_log, drain_after_drain>>

\* An insert at samples_.begin() instead of samples_.end().
AppendInsertFront ==
    /\ p_pc = "insert"
    /\ p_i < Len(p_data)
    /\ samples_' = <<p_data[p_i + 1]>> \o samples_
    /\ p_i' = p_i + 1
    /\ drain_after_drain' = FALSE
    /\ UNCHANGED <<mu_, p_pc, p_data, c_pc, c_out, c_count, appended_log,
                   drained_log, pending_log>>

\* line 13: samples_.insert(samples_.end(), data, data + count), one sample
AppendInsert ==
    /\ p_pc = "insert"
    /\ p_i < Len(p_data)
    /\ samples_' = Append(samples_, p_data[p_i + 1])
    /\ p_i' = p_i + 1
    /\ drain_after_drain' = FALSE
    /\ UNCHANGED <<mu_, p_pc, p_data, c_pc, c_out, c_count, appended_log,
                   drained_log, pending_log>>

\* line 14: the lock_guard's destructor; append returns
AppendUnlock ==
    /\ p_pc = "insert"
    /\ p_i = Len(p_data)
    /\ mu_' = "free"
    /\ appended_log' = Append(appended_log, p_data)
    /\ pending_log' = Append(pending_log, p_data)
    /\ p_data' = <<>>
    /\ p_i' = 0
    /\ p_pc' = "idle"
    /\ UNCHANGED <<samples_, c_pc, c_out, c_count, drained_log, drain_after_drain>>

\* A drain() that does not wait for the mutex.
DrainLockNoMutex ==
    /\ c_pc = "idle"
    /\ Len(drained_log) < MaxDrains
    /\ c_pc' = "locked"
    /\ UNCHANGED <<samples_, mu_, p_pc, p_data, p_i, c_out, c_count, appended_log,
                   drained_log, pending_log, drain_after_drain>>

\* drain(), line 17: std::lock_guard lk(mu_)
DrainLock ==
    /\ c_pc = "idle"
    /\ mu_ = "free"
    /\ Len(drained_log) < MaxDrains
    /\ mu_' = "consumer"
    /\ c_pc' = "locked"
    /\ UNCHANGED <<samples_, p_pc, p_data, p_i, c_out, c_count, appended_log,
                   drained_log, pending_log, drain_after_drain>>

\* A drain() that copies the store and forgets to empty it.
DrainSwapCopy ==
    /\ c_pc = "locked"
    /\ c_out' = samples_
    /\ pending_log' = <<>>
    /\ drain_after_drain' = TRUE
    /\ c_pc' = "swapped"
    /\ UNCHANGED <<samples_, mu_, p_pc, p_data, p_i, c_count, appended_log, drained_log>>

\* lines 18-20: out.swap(samples_); samples_.reserve(out.capacity())
DrainSwap ==
    /\ c_pc = "locked"
    /\ c_out' = samples_
    /\ samples_' = <<>>
    /\ pending_log' = <<>>
    /\ drain_after_drain' = TRUE
    /\ c_pc' = "swapped"
    /\ UNCHANGED <<mu_, p_pc, p_data, p_i, c_count, appended_log, drained_log>>

\* lines 21-22: return out; the lock_guard's destructor
DrainUnlock ==
    /\ c_pc = "swapped"
    /\ mu_' = IF mu_ = "consumer" THEN "free" ELSE mu_
    /\ drained_log' = Append(drained_log, c_out)
    /\ c_pc' = "idle"
    /\ UNCHANGED <<samples_, p_pc, p_data, p_i, c_out, c_count, appended_log,
                   pending_log, drain_after_drain>>

\* count(), lines 29-32, by the consumer thread
Count ==
    /\ c_pc = "idle"
    /\ mu_ = "free"
    /\ c_count' = Len(samples_)
    /\ UNCHANGED <<samples_, mu_, p_pc, p_data, p_i, c_pc, c_out, appended_log,
                   drained_log, pending_log, drain_after_drain>>


(***************************************************************************)
(* Voice activity detector (vad.h, vad.cpp).                               *)
(*                                                                         *)
(* A sample is a record [id, a]: id is its position in the input stream,   *)
(* a its amplitude in units of 0.001.  rms >= t is decided exactly, as     *)
(* sum(a^2) >= t^2 * len.  The durations are scaled down together with the *)
(* sample rate, keeping the defaults' order                                *)
(* pre_padding < post_padding < pre_padding + post_padding < min_silence.  *)
(***************************************************************************)
speech_threshold        == 7      \* 0.007f
silence_threshold       == 3      \* 0.003f
min_speech_duration_ms  == 60
min_silence_duration_ms == 100
pre_speech_padding_ms   == 33
post_speech_padding_ms  == 50
SampleRate  == 67     \* the rate process() is called with; frame_size is 2
MaxCount    == 3      \* longest input of one process() call
MaxSamples  == 16     \* samples fed over a run
MaxResets   == 1
MaxToggles  == 1
Amps        == {0, 5, 7}

pre_speech_max_samples(v)  == (v.pre_speech_padding_ms * v.active_sample_rate_) \div 1000
post_speech_max_samples(v) == (v.post_speech_padding_ms * v.active_sample_rate_) \div 1000
min_speech_samples(v)      == (v.min_speech_duration_ms * v.active_sample_rate_) \div 1000
min_silence_samples(v)     == (v.min_silence_duration_ms * v.active_sample_rate_) \div 1000

RECURSIVE SumSq(_)
SumSq(frame) == IF frame = <<>> THEN 0
                ELSE Head(frame).a * Head(frame).a + SumSq(Tail(frame))

\* compute_rms(frame, len) >= t, for a threshold t >= 0
RmsAtLeast(frame, t) ==
    IF Len(frame) = 0 THEN 0 >= t ELSE SumSq(frame) >= t * t * Len(frame)

\* An append_to_pre_speech that drops the newest samples on overflow.
append_to_pre_speech_keep_oldest(v, data) ==
    [v EXCEPT !.pre_speech_buf_ = FirstN(v.pre_speech_buf_ \o data,
                                         pre_speech_max_samples(v))]

append_to_pre_speech(v, data) ==
    LET buf == v.pre_speech_buf_ \o data
        max == pre_speech_max_samples(v)
    IN  [v EXCEPT !.pre_speech_buf_ =
            IF Len(buf) > max THEN SubSeq(buf, Len(buf) - max + 1, Len(buf)) ELSE buf]

\* A State::silence case that leaves the first loud frame out of the onset
\* buffer.
frame_in_silence_drops_first(v, frame, out) ==
    IF RmsAtLeast(frame, v.speech_threshold)
    THEN [v   |-> [v EXCEPT !.state = "speech_onset",
                            !.speech_sample_count_ = Len(frame),
                            !.onset_buf_ = <<>>],
          out |-> out]
    ELSE [v |-> append_to_pre_speech(v, frame), out |-> out]

\* process_frame, case State::silence
frame_in_silence(v, frame, out) ==
    IF RmsAtLeast(frame, v.speech_threshold)
    THEN [v   |-> [v EXCEPT !.state = "speech_onset",
                            !.speech_sample_count_ = Len(frame),
                            !.onset_buf_ = frame],
          out |-> out]
    ELSE [v |-> append_to_pre_speech(v, frame), out |-> out]

\* A State::speech_onset case that emits the onset buffer before the
\* pre-speech buffer on confirmation.
frame_in_speech_onset_onset_first(v, frame, out) ==
    IF RmsAtLeast(frame, v.speech_threshold)
    THEN LET v1 == [v EXCEPT !.speech_sample_count_ = @ + Len(frame),
                             !.onset_buf_ = @ \o frame]
         IN  IF v1.speech_sample_count_ >= min_speech_samples(v1)
             THEN [v   |-> [v1 EXCEPT !.state = "speaking",
                                      !.is_speaking = TRUE,
                                      !.pre_speech_buf_ = <<>>,
                                      !.onset_buf_ = <<>>],
                   out |-> out \o v1.onset_buf_ \o v1.pre_speech_buf_]
             ELSE [v |-> v1, out |-> out]
    ELSE LET v1 == append_to_pre_speech(v, v.onset_buf_)
             v2 == append_to_pre_speech(v1, frame)
         IN  [v   |-> [v2 EXCEPT !.onset_buf_ = <<>>,
                                 !.speech_sample_count_ = 0,
                                 !.state = "silence"],
              out |-> out]

\* A State::speech_onset case that throws the onset buffer away on a false
\* alarm.
frame_in_speech_onset_drops_onset(v, frame, out) ==
    IF RmsAtLeast(frame, v.speech_threshold)
    THEN LET v1 == [v EXCEPT !.speech_sample_count_ = @ + Len(frame),
                             !.onset_buf_ = @ \o frame]
         IN  IF v1.speech_sample_count_ >= min_speech_samples(v1)
             THEN [v   |-> [v1 EXCEPT !.state = "speaking",
                                      !.is_speaking = TRUE,
                                      !.pre_speech_buf_ = <<>>,
                                      !.onset_buf_ = <<>>],
                   out |-> out \o v1.pre_speech_buf_ \o v1.onset_buf_]
             ELSE [v |-> v1, out |-> out]
    ELSE LET v2 == append_to_pre_speech(v, frame)
         IN  [v   |-> [v2 EXCEPT !.onset_buf_ = <<>>,
                                 !.speech_sample_count_ = 0,
                                 !.state = "silence"],
              out |-> out]

\* process_frame, case State::speech_onset
frame_in_speech_onset(v, frame, out) ==
    IF RmsAtLeast(frame, v.speech_threshold)
    THEN LET v1 == [v EXCEPT !.speech_sample_count_ = @ + Len(frame),
                             !.onset_buf_ = @ \o frame]
         IN  IF v1.speech_sample_count_ >= min_speech_samples(v1)
             THEN [v   |-> [v1 EXCEPT !.state = "speaking",
                                      !.is_speaking = TRUE,
                                      !.pre_speech_buf_ = <<>>,
                                      !.onset_buf_ = <<>>],
                   out |-> out \o v1.pre_speech_buf_ \o v1.onset_buf_]
             ELSE [v |-> v1, out |-> out]
    ELSE LET v1 == append_to_pre_speech(v, v.onset_buf_)
             v2 == append_to_pre_speech(v1, frame)
         IN  [v   |-> [v2 EXCEPT !.onset_buf_ = <<>>,
                                 !.speech_sample_count_ = 0,
                                 !.state = "silence"],
              out |-> out]

\* A State::speaking case that compares against speech_threshold (no hysteresis).
frame_in_speaking_one_threshold(v, frame, out) ==
    IF ~RmsAtLeast(frame, v.speech_threshold)
    THEN [v   |-> [v EXCEPT !.state = "speech_offset",
                            !.silence_sample_count_ = Len(frame),
                            !.post_speech_buf_ = frame],
          out |-> out]
    ELSE [v |-> v, out |-> out \o frame]

\* A State::speaking case that emits the frame that starts the offset as
\* well as buffering it.
frame_in_speaking_emits_buffered(v, frame, out) ==
    IF ~RmsAtLeast(frame, v.silence_threshold)
    THEN [v   |-> [v EXCEPT !.state = "speech_offset",
                            !.silence_sample_count_ = Len(frame),
                            !.post_speech_buf_ = frame],
          out |-> out \o frame]
    ELSE [v |-> v, out |-> out \o frame]

\* process_frame, case State::speaking
frame_in_speaking(v, frame, out) ==
    IF ~RmsAtLeast(frame, v.silence_threshold)
    THEN [v   |-> [v EXCEPT !.state = "speech_offset",
                            !.silence_sample_count_ = Len(frame),
                            !.post_speech_buf_ = frame],
          out |-> out]
    ELSE [v |-> v, out |-> out \o frame]

\* A State::speech_offset case that emits the whole post-speech buffer at the end.
frame_in_speech_offset_no_cap(v, frame, out) ==
    IF ~RmsAtLeast(frame, v.silence_threshold)
    THEN LET v1 == [v EXCEPT !.silence_sample_count_ = @ + Len(frame),
                             !.post_speech_buf_ = @ \o frame]
         IN  IF v1.silence_sample_count_ >= min_silence_samples(v1)
             THEN [v   |-> [v1 EXCEPT !.post_speech_buf_ = <<>>,
                                      !.silence_sample_count_ = 0,
                                      !.state = "silence",
                                      !.is_speaking = FALSE,
                                      !.pre_speech_buf_ = <<>>],
                   out |-> out \o v1.post_speech_buf_]
             ELSE [v |-> v1, out |-> out]
    ELSE [v   |-> [v EXCEPT !.post_speech_buf_ = <<>>,
                            !.silence_sample_count_ = 0,
                            !.state = "speaking"],
          out |-> out \o v.post_speech_buf_ \o frame]

\* A State::speech_offset case that emits the newest samples of the
\* post-speech buffer at the end of speech.
frame_in_speech_offset_emits_tail(v, frame, out) ==
    IF ~RmsAtLeast(frame, v.silence_threshold)
    THEN LET v1 == [v EXCEPT !.silence_sample_count_ = @ + Len(frame),
                             !.post_speech_buf_ = @ \o frame]
         IN  IF v1.silence_sample_count_ >= min_silence_samples(v1)
             THEN [v   |-> [v1 EXCEPT !.post_speech_buf_ = <<>>,
                                      !.silence_sample_count_ = 0,
                                      !.state = "silence",
                                      !.is_speaking = FALSE,
                                      !.pre_speech_buf_ = <<>>],
                   out |-> out \o LastN(v1.post_speech_buf_,
                                        post_speech_max_samples(v1))]
             ELSE [v |-> v1, out |-> out]
    ELSE [v   |-> [v EXCEPT !.post_speech_buf_ = <<>>,
                            !.silence_sample_count_ = 0,
                            !.state = "speaking"],
          out |-> out \o v.post_speech_buf_ \o frame]

\* A State::speech_offset case that caps the silence it re-emits when speech
\* resumes.
frame_in_speech_offset_capped_resume(v, frame, out) ==
    IF ~RmsAtLeast(frame, v.silence_threshold)
    THEN LET v1 == [v EXCEPT !.silence_sample_count_ = @ + Len(frame),
                             !.post_speech_buf_ = @ \o frame]
         IN  IF v1.silence_sample_count_ >= min_silence_samples(v1)
             THEN LET padding == Min(post_speech_max_samples(v1),
                                     Len(v1.post_speech_buf_))
                  IN  [v   |-> [v1 EXCEPT !.post_speech_buf_ = <<>>,
                                          !.silence_sample_count_ = 0,
                                          !.state = "silence",
                                          !.is_speaking = FALSE,
                                          !.pre_speech_buf_ = <<>>],
                       out |-> out \o SubSeq(v1.post_speech_buf_, 1, padding)]
             ELSE [v |-> v1, out |-> out]
    ELSE [v   |-> [v EXCEPT !.post_speech_buf_ = <<>>,
                            !.silence_sample_count_ = 0,
                            !.state = "speaking"],
          out |-> out \o FirstN(v.post_speech_buf_, post_speech_max_samples(v))
                      \o frame]

\* process_frame, case State::speech_offset
\* A State::speech_offset case that leaves is_speaking set at the end of
\* speech.
frame_in_speech_offset_keeps_speaking(v, frame, out) ==
    IF ~RmsAtLeast(frame, v.silence_threshold)
    THEN LET v1 == [v EXCEPT !.silence_sample_count_ = @ + Len(frame),
                             !.post_speech_buf_ = @ \o frame]
         IN  IF v1.silence_sample_count_ >= min_silence_samples(v1)
             THEN LET padding == Min(post_speech_max_samples(v1),
                                     Len(v1.post_speech_buf_))
                  IN  [v   |-> [v1 EXCEPT !.post_speech_buf_ = <<>>,
                                          !.silence_sample_count_ = 0,
                                          !.state = "silence",
                                          !.pre_speech_buf_ = <<>>],
                       out |-> out \o SubSeq(v1.post_speech_buf_, 1, padding)]
             ELSE [v |-> v1, out |-> out]
    ELSE [v   |-> [v EXCEPT !.post_speech_buf_ = <<>>,
                            !.silence_sample_count_ = 0,
                            !.state = "speaking"],
          out |-> out \o v.post_speech_buf_ \o frame]

frame_in_speech_offset(v, frame, out) ==
    IF ~RmsAtLeast(frame, v.silence_threshold)
    THEN LET v1 == [v EXCEPT !.silence_sample_count_ = @ + Len(frame),
                             !.post_speech_buf_ = @ \o frame]
         IN  IF v1.silence_sample_count_ >= min_silence_samples(v1)
             THEN LET padding == Min(post_speech_max_samples(v1),
                                     Len(v1.post_speech_buf_))
                  IN  [v   |-> [v1 EXCEPT !.post_speech_buf_ = <<>>,
                                          !.silence_sample_count_ = 0,
                                          !.state = "silence",
                                          !.is_speaking = FALSE,
                                          !.pre_speech_buf_ = <<>>],
                       out |-> out \o SubSeq(v1.post_speech_buf_, 1, padding)]
             ELSE [v |-> v1, out |-> out]
    ELSE [v   |-> [v EXCEPT !.post_speech_buf_ = <<>>,
                            !.silence_sample_count_ = 0,
                            !.state = "speaking"],
          out |-> out \o v.post_speech_buf_ \o frame]

process_frame(v, frame, out) ==
    CASE v.state = "silence"       -> frame_in_silence(v, frame, out)
      [] v.state = "speech_onset"  -> frame_in_speech_onset(v, frame, out)
      [] v.state = "speaking"      -> frame_in_speaking(v, frame, out)
      [] v.state = "speech_offset" -> frame_in_speech_offset(v, frame, out)

\* A reset that puts a newly constructed detector in place of the old one.
reset_constructs_anew(v) ==
    [state |-> "silence", is_speaking |-> FALSE, is_enabled |-> TRUE,
     speech_threshold |-> v.speech_threshold,
     silence_threshold |-> v.silence_threshold,
     min_speech_duration_ms |-> v.min_speech_duration_ms,
     min_silence_duration_ms |-> v.min_silence_duration_ms,
     pre_speech_padding_ms |-> v.pre_speech_padding_ms,
     post_speech_padding_ms |-> v.post_speech_padding_ms,
     active_sample_rate_ |-> 16000,
     pre_speech_buf_ |-> <<>>, onset_buf_ |-> <<>>, post_speech_buf_ |-> <<>>,
     speech_sample_count_ |-> 0, silence_sample_count_ |-> 0]

reset(v) ==
    [v EXCEPT !.state = "silence",
              !.is_speaking = FALSE,
              !.pre_speech_buf_ = <<>>,
              !.onset_buf_ = <<>>,
              !.post_speech_buf_ = <<>>,
              !.speech_sample_count_ = 0,
              !.silence_sample_count_ = 0]

\* The member initialisers of vad.h, with the thresholds and durations as
\* apply_vad_settings has written them.
VadObject ==
    [state |-> "silence", is_speaking |-> FALSE, is_enabled |-> TRUE,
     speech_threshold |-> speech_threshold,
     silence_threshold |-> silence_threshold,
     min_speech_duration_ms |-> min_speech_duration_ms,
     min_silence_duration_ms |-> min_silence_duration_ms,
     pre_speech_padding_ms |-> pre_speech_padding_ms,
     post_speech_padding_ms |-> post_speech_padding_ms,
     active_sample_rate_ |-> 16000,
     pre_speech_buf_ |-> <<>>, onset_buf_ |-> <<>>, post_speech_buf_ |-> <<>>,
     speech_sample_count_ |-> 0, silence_sample_count_ |-> 0]

(***************************************************************************)
(* History of a session (since reset): the shape of the input seen so far  *)
(* and what became of it.                                                  *)
(*   phase    "start"  nothing fed yet                                     *)
(*            "speech" only frames with rms >= speech_threshold so far     *)
(*            "gap"    confirmed speech, then only frames with             *)
(*                     rms < silence_threshold                             *)
(*            "again"  ..., a gap of >= min_silence_samples, then only     *)
(*                     frames with rms >= speech_threshold                 *)
(*            "off"    any other input                                     *)
(*   gap_first, gap_last   the ids of the gap's samples                    *)
(*   n_in, n_out, gap_out  samples fed, emitted, and gap samples emitted   *)
(*   run, run_stable       length of the current run of frames with rms    *)
(*                         strictly between the thresholds, and whether    *)
(*                         the state stayed put after the run's 1st frame  *)
(*   run_from              the state the run's first frame arrived in      *)
(*   emitted_to            the id of the newest sample emitted, 0 if none  *)
(*   reset_from            the state reset() found, until the next frame   *)
(***************************************************************************)
HistStart == [phase |-> "start", gap_first |-> 0, gap_last |-> 0,
              n_in |-> 0, n_out |-> 0, gap_out |-> 0,
              run |-> 0, run_from |-> "", run_stable |-> TRUE,
              emitted_to |-> 0, reset_from |-> ""]

IsSpeechFrame(f)  == RmsAtLeast(f, speech_threshold)
IsSilentFrame(f)  == ~RmsAtLeast(f, silence_threshold)
\* rms strictly between the two thresholds
IsBetweenFrame(f) == /\ Len(f) > 0
                     /\ SumSq(f) > silence_threshold * silence_threshold * Len(f)
                     /\ SumSq(f) < speech_threshold * speech_threshold * Len(f)

NextPhase(h, e) ==
    LET f == e.frame
    IN  CASE h.phase = "start"  -> IF IsSpeechFrame(f) THEN "speech" ELSE "off"
          [] h.phase = "speech" -> IF IsSpeechFrame(f) THEN "speech"
                                   ELSE IF IsSilentFrame(f) /\ e.pre.state = "speaking"
                                        THEN "gap" ELSE "off"
          [] h.phase = "gap"    -> IF IsSilentFrame(f) THEN "gap"
                                   ELSE IF /\ IsSpeechFrame(f)
                                           /\ h.gap_last - h.gap_first + 1
                                                >= min_silence_samples(e.pre)
                                        THEN "again" ELSE "off"
          [] h.phase = "again"  -> IF IsSpeechFrame(f) THEN "again" ELSE "off"
          [] OTHER              -> "off"

HistFrame(h, e) ==
    LET ph    == NextPhase(h, e)
        first == IF ph = "gap" /\ h.phase = "speech" THEN e.frame[1].id ELSE h.gap_first
        last  == IF ph = "gap" THEN e.frame[Len(e.frame)].id ELSE h.gap_last
        inGap == {k \in 1..Len(e.emitted) :
                     e.emitted[k].id >= first /\ e.emitted[k].id <= last}
        run   == IF IsBetweenFrame(e.frame) THEN h.run + 1 ELSE 0
        stab  == IF run = 0 THEN TRUE
                 ELSE IF run = 1 THEN TRUE
                 ELSE h.run_stable /\ e.post.state = e.pre.state
        from  == IF run = 0 THEN "" ELSE IF run = 1 THEN e.pre.state ELSE h.run_from
        to    == IF e.emitted = <<>> THEN h.emitted_to
                 ELSE e.emitted[Len(e.emitted)].id
    IN  IF ph = "off"
        THEN [HistStart EXCEPT !.phase = "off", !.run = run, !.run_from = from,
                               !.run_stable = stab, !.emitted_to = to]
        ELSE [phase |-> ph, gap_first |-> first, gap_last |-> last,
              n_in |-> h.n_in + Len(e.frame),
              n_out |-> h.n_out + Len(e.emitted),
              gap_out |-> h.gap_out + (IF ph \in {"gap", "again"}
                                       THEN Cardinality(inGap) ELSE 0),
              run |-> run, run_from |-> from, run_stable |-> stab,
              emitted_to |-> to, reset_from |-> ""]

\* The buffers a caller can hand to process(): every sample of a frame has
\* the same amplitude, or (two samples or more) the frame is 0, 7, 7, ...
FrameShapes(n) ==
    {[k \in 1..n |-> a] : a \in Amps}
    \cup (IF n >= 2 THEN {[k \in 1..n |-> IF k = 1 THEN 0 ELSE 7]} ELSE {})

WithIds(amps, first) == [k \in 1..Len(amps) |-> [id |-> first + k, a |-> amps[k]]]

\* What v_last holds of a frame: the detector before and after it, the frame
\* and what process_frame appended to the output for it.
FrameRecord(v, frame, r, out) ==
    [pre |-> v, frame |-> frame, post |-> r.v,
     emitted |-> SubSeq(r.out, Len(out) + 1, Len(r.out))]

VADInit ==
    /\ vad = VadObject
    /\ v_pc = "idle" /\ v_count = 0 /\ v_offset = 0
    /\ v_in = <<>> /\ v_out = <<>> /\ v_last = <<>>
    /\ v_next_id = 0 /\ v_resets = 0 /\ v_toggles = 0
    /\ g = HistStart

\* A process() that enters the frame loop whatever is_enabled says.
ProcessCallIgnoringEnabled ==
    /\ v_pc = "idle"
    /\ \E count \in 1..MaxCount :
          /\ v_next_id + count <= MaxSamples
          /\ v_count' = count
    /\ vad' = [vad EXCEPT !.active_sample_rate_ = SampleRate]
    /\ v_offset' = 0 /\ v_in' = <<>> /\ v_out' = <<>>
    /\ v_pc' = "loop"
    /\ UNCHANGED <<v_last, v_next_id, v_resets, v_toggles, g>>

\* process(samples, count, sample_rate), vad.cpp lines 4-10: the is_enabled
\* test, and the locals of an enabled call.
ProcessCall ==
    /\ v_pc = "idle"
    /\ \E count \in 1..MaxCount :
          /\ v_next_id + count <= MaxSamples
          /\ IF ~vad.is_enabled
             THEN \E amps \in FrameShapes(count) :
                     /\ v_in' = WithIds(amps, v_next_id)
                     /\ v_out' = WithIds(amps, v_next_id)
                     /\ g' = [HistStart EXCEPT !.phase = "off"]
                     /\ UNCHANGED <<vad, v_pc, v_count, v_offset, v_next_id>>
             ELSE /\ vad' = [vad EXCEPT !.active_sample_rate_ = SampleRate]
                  /\ v_count' = count
                  /\ v_offset' = 0 /\ v_in' = <<>> /\ v_out' = <<>>
                  /\ v_pc' = "loop"
                  /\ UNCHANGED <<v_next_id, g>>
    /\ UNCHANGED <<v_last, v_resets, v_toggles>>

\* One iteration of the while loop, lines 12-16: the next frame_size samples
\* (fewer at the end) go through process_frame.  The content of the caller's
\* buffer is drawn as the loop reads it.
ProcessFrame ==
    /\ v_pc = "loop"
    /\ v_offset < v_count
    /\ LET frame_size == (vad.active_sample_rate_ * 30) \div 1000
           end        == Min(v_offset + frame_size, v_count)
       IN  \E amps \in FrameShapes(end - v_offset) :
              LET frame == WithIds(amps, v_next_id)
                  r     == process_frame(vad, frame, v_out)
                  e     == FrameRecord(vad, frame, r, v_out)
              IN  /\ vad' = r.v
                  /\ v_out' = r.out
                  /\ v_offset' = end
                  /\ v_in' = v_in \o frame
                  /\ v_next_id' = v_next_id + Len(frame)
                  /\ v_last' = <<e>>
                  /\ g' = HistFrame(g, e)
    /\ UNCHANGED <<v_pc, v_count, v_resets, v_toggles>>

\* line 18: return output
ProcessReturn ==
    /\ v_pc = "loop"
    /\ v_offset >= v_count
    /\ v_pc' = "idle"
    /\ UNCHANGED <<vad, v_count, v_offset, v_in, v_out, v_last, v_next_id,
                   v_resets, v_toggles, g>>

\* reset(), between two process() calls
Reset ==
    /\ v_pc = "idle"
    /\ v_resets < MaxResets
    /\ vad' = reset(vad)
    /\ v_resets' = v_resets + 1
    /\ g' = [HistStart EXCEPT !.reset_from = vad.state]
    /\ v_last' = <<>>
    /\ UNCHANGED <<v_pc, v_count, v_offset, v_in, v_out, v_next_id, v_toggles>>

\* A write to the public field is_enabled (apply_vad_settings), between calls.
SetEnabled ==
    /\ v_pc = "idle"
    /\ v_toggles < MaxToggles
    /\ vad' = [vad EXCEPT !.is_enabled = ~vad.is_enabled]
    /\ v_toggles' = v_toggles + 1
    /\ v_last' = <<>>
    /\ g' = [g EXCEPT !.run = 0, !.run_from = "", !.run_stable = TRUE]
    /\ UNCHANGED <<v_pc, v_count, v_offset, v_in, v_out, v_next_id, v_resets>>

(***************************************************************************)
(* Hallucination filter (transcription_pipeline.cpp).  A std::string is a  *)
(* sequence of one-character strings.                                      *)
(***************************************************************************)
UpperCase == <<"A", "B", "C", "D", "E", "F", "G", "H", "I", "J", "K", "L", "M",
               "N", "O", "P", "Q", "R", "S", "T", "U", "V", "W", "X", "Y", "Z">>
LowerCase == <<"a", "b", "c", "d", "e", "f", "g", "h", "i", "j", "k", "l", "m",
               "n", "o", "p", "q", "r", "s", "t", "u", "v", "w", "x", "y", "z">>

\* std::tolower in the C locale
ToLower == [u \in {UpperCase[i] : i \in DOMAIN UpperCase} |->
               LowerCase[CHOOSE i \in DOMAIN UpperCase : UpperCase[i] = u]]
tolower(c) == IF c \in DOMAIN ToLower THEN ToLower[c] ELSE c

HALLUCINATION_PATTERNS == <<
    <<"t", "h", "a", "n", "k", " ", "y", "o", "u">>,
    <<"t", "h", "a", "n", "k", "s", " ", "f", "o", "r", " ", "w", "a", "t", "c", "h", "i", "n", "g">>,
    <<"t", "h", "a", "n", "k", "s", " ", "f", "o", "r", " ", "l", "i", "s", "t", "e", "n", "i", "n", "g">>,
    <<"p", "l", "e", "a", "s", "e", " ", "s", "u", "b", "s", "c", "r", "i", "b", "e">>,
    <<"l", "i", "k", "e", " ", "a", "n", "d", " ", "s", "u", "b", "s", "c", "r", "i", "b", "e">>,
    <<"s", "e", "e", " ", "y", "o", "u", " ", "n", "e", "x", "t", " ", "t", "i", "m", "e">>,
    <<"b", "y", "e", " ", "b", "y", "e">>,
    <<"g", "o", "o", "d", "b", "y", "e">>,
    <<"t", "h", "e", " ", "e", "n", "d">> >>

\* while (!s.empty() && (s.front() == ' ' || s.front() == '\n')) s.erase(s.begin());
RECURSIVE erase_front(_)
erase_front(str) ==
    IF str # <<>> /\ (Head(str) = " " \/ Head(str) = "\n")
    THEN erase_front(Tail(str)) ELSE str

\* while (!s.empty() && (s.back() == ' ' || s.back() == '\n')) s.pop_back();
RECURSIVE pop_back(_)
pop_back(str) ==
    IF str # <<>> /\ (str[Len(str)] = " " \/ str[Len(str)] = "\n")
    THEN pop_back(SubSeq(str, 1, Len(str) - 1)) ELSE str

\* The two trimming loops, as written in is_hallucination, continuous_loop
\* and transcribe_and_output.
trim(str) == pop_back(erase_front(str))

\* std::string::find(pattern) from position pos (1-based); 0 stands for npos.
find(str, pattern, pos) ==
    LET hits == {i \in pos..(Len(str) - Len(pattern) + 1) :
                    \A j \in DOMAIN pattern : str[i + j - 1] = pattern[j]}
    IN  IF hits = {} THEN 0 ELSE CHOOSE i \in hits : \A j \in hits : i <= j

\* An is_hallucination that does not fold the case.
is_hallucination_case_sensitive(text) ==
    LET lower == trim(text)
    IN  \/ Len(lower) < 3
        \/ \E k \in DOMAIN HALLUCINATION_PATTERNS :
              find(lower, HALLUCINATION_PATTERNS[k], 1) # 0

is_hallucination(text) ==
    LET lower == trim([k \in DOMAIN text |-> tolower(text[k])])
    IN  \/ Len(lower) < 3
        \/ \E k \in DOMAIN HALLUCINATION_PATTERNS :
              find(lower, HALLUCINATION_PATTERNS[k], 1) # 0

\* The texts the filter is run on: every text of up to MaxTextLen characters
\* over HFAlphabet, and phrases (stock and near-stock) in a prefix and suffix.
MaxTextLen == 3
HFAlphabet == {" ", "\n", "\t", "a", "B"}
HFPhrases  == {<<"T", "h", "a", "n", "k", " ", "y", "o", "u">>,
               <<"t", "h", "a", "n", "k", " ", "y", "o", "u">>,
               <<"t", "h", "a", "n", "k", " ", " ", "y", "o", "u">>,
               <<"T", "H", "A", "N", "K", "S", " ", "F", "O", "R", " ", "W", "A", "T", "C", "H", "I", "N", "G">>,
               <<"T", "h", "a", "n", "k", "s", " ", "f", "o", "r", " ", "l", "i", "s", "t", "e", "n", "i", "n", "g">>,
               <<"P", "l", "e", "a", "s", "e", " ", "S", "u", "b", "s", "c", "r", "i", "b", "e">>,
               <<"l", "i", "k", "e", " ", "a", "n", "d", " ", "s", "u", "b", "s", "c", "r", "i", "b", "e">>,
               <<"S", "e", "e", " ", "y", "o", "u", " ", "n", "e", "x", "t", " ", "t", "i", "m", "e">>,
               <<"b", "y", "e", " ", "b", "y", "e">>,
               <<"B", "y", "e", "-", "b", "y", "e">>,
               <<"G", "o", "o", "d", "b", "y", "e">>,
               <<"g", "o", "o", "d", " ", "b", "y", "e">>,
               <<"T", "h", "e", " ", "E", "n", "d">>,
               <<"t", "h", "e", " ", "e", "n">>,
               <<"T", "h", "e", " ", "w", "e", "a", "t", "h", "e", "r", " ", "t", "o", "d", "a", "y", " ", "i", "s", " ", "s", "u", "n", "n", "y">>,
               <<"t", "h", "e", " ", "w", "e", "a", "t", "h", "e", "r">>,
               <<"o", "k">>}
HFPrefixes == {<<>>, <<" ", " ">>, <<"S", "o", ",", " ">>}
HFSuffixes == {<<>>, <<".">>, <<" ", " ">>, <<"\n">>}
HFTexts    == SeqsOf(HFAlphabet, 0, MaxTextLen)
              \cup {a \o ph \o b : a \in HFPrefixes, ph \in HFPhrases, b \in HFSuffixes}

HFIdle == hf_text = <<>> /\ hf_called = FALSE /\ hf_result = FALSE

HFInit == hf_text \in HFTexts /\ hf_called = FALSE /\ hf_result = FALSE

\* One call of is_hallucination(text).
CheckHallucination ==
    /\ ~hf_called
    /\ hf_called' = TRUE
    /\ hf_result' = is_hallucination(hf_text)
    /\ UNCHANGED hf_text

(***************************************************************************)
(* WhisperContext::transcribe as its callers see it, and transcribe_chunked *)
(* (transcription_pipeline.cpp lines 211-234).  Audio is kept as sample     *)
(* positions: a buffer of n samples is the positions 0 .. n-1, a chunk the  *)
(* half-open interval [from, to).                                           *)
(***************************************************************************)
MAX_CHUNK_SAMPLES == 480000
MaxChunks == 3     \* chunks of the longest audio handed to transcribe_chunked

\* What whisper_full and the segment getters can leave for a buffer of n
\* samples: a non-zero result, or result 0 with segments whose t0/t1 are in
\* units of 10 ms.  d is the buffer's duration in those units, rounded down.
WhisperOutcomes(n) ==
    LET d == n \div 160
        h == d \div 2
    IN  {[result |-> 1, segments |-> <<>>],
         [result |-> 0, segments |-> <<>>],
         [result |-> 0, segments |-> <<[text |-> <<" ", "a">>, t0 |-> 0, t1 |-> d]>>],
         [result |-> 0, segments |-> <<[text |-> <<" ", "b">>, t0 |-> 0, t1 |-> h],
                                       [text |-> <<" ", "c">>, t0 |-> h, t1 |-> d]>>],
         [result |-> 0, segments |-> <<[text |-> <<" ", "d">>, t0 |-> h, t1 |-> d + 100]>>]}

\* The outcome keeps the proviso "non-decreasing times within the buffer's
\* duration".
TimesWithinDuration(w, n) ==
    /\ \A i \in DOMAIN w.segments :
          /\ 0 <= w.segments[i].t0
          /\ w.segments[i].t0 <= w.segments[i].t1
          /\ w.segments[i].t1 * 160 <= n
    /\ \A i \in DOMAIN w.segments : \A j \in DOMAIN w.segments :
          i < j => w.segments[i].t1 <= w.segments[j].t0

\* A transcribe that returns an empty result when whisper_full fails, the
\* duration left at zero.
transcribe_failure_drops_duration(n, w) ==
    [segments |-> IF w.result # 0 THEN <<>>
                  ELSE [i \in DOMAIN w.segments |->
                           [text |-> w.segments[i].text,
                            start_time |-> w.segments[i].t0 * 10,
                            end_time |-> w.segments[i].t1 * 10]],
     audio_duration_ms |-> IF w.result # 0 THEN [num |-> 0, den |-> 16]
                           ELSE [num |-> n, den |-> 16]]

\* WhisperContext::transcribe(samples, prompt), whisper_context.cpp lines
\* 72-97, for n samples and the outcome w of whisper_full: the result's
\* segments and its audio_duration_ms (samples.size() / 16.0, as a fraction).
transcribe(n, w) ==
    [segments |-> IF w.result # 0 THEN <<>>
                  ELSE [i \in DOMAIN w.segments |->
                           [text |-> w.segments[i].text,
                            start_time |-> w.segments[i].t0 * 10,
                            end_time |-> w.segments[i].t1 * 10]],
     audio_duration_ms |-> [num |-> n, den |-> 16]]

\* TranscriptionResult::full_text()
full_text(result) ==
    Flatten([i \in DOMAIN result.segments |-> result.segments[i].text])

\* A chunk loop that shifts no segment.
chunk_segments_not_rebased(chunk_result, offset) == chunk_result.segments

\* transcribe_chunked lines 221-224: the chunk's segments, shifted by the
\* chunk's offset in ms (the double offset / 16.0 cast to int64_t).
chunk_segments(chunk_result, offset) ==
    LET offset_ms == offset \div 16
    IN  [i \in DOMAIN chunk_result.segments |->
            [text |-> chunk_result.segments[i].text,
             start_time |-> chunk_result.segments[i].start_time + offset_ms,
             end_time |-> chunk_result.segments[i].end_time + offset_ms]]

\* A chunk end that lets the next chunk start one sample early.
chunk_end_overlapping(offset, size) ==
    IF offset + MAX_CHUNK_SAMPLES >= size THEN size
    ELSE offset + MAX_CHUNK_SAMPLES - 1

\* transcribe_chunked line 217: where the chunk that starts at offset ends.
chunk_end(offset, size) == Min(offset + MAX_CHUNK_SAMPLES, size)

\* The lengths transcribe_and_output hands over: more than MAX_CHUNK_SAMPLES.
ChunkedLengths ==
    {c * MAX_CHUNK_SAMPLES + extra :
        c \in 1..(MaxChunks - 1), extra \in {1, 40000, MAX_CHUNK_SAMPLES}}

(***************************************************************************)
(* The transcription pipeline (transcription_pipeline.cpp): start and stop *)
(* of a recording session and the continuous-mode monitor thread.  The raw *)
(* buffer is kept as its sample count and the detector as the is_speaking  *)
(* flag the monitor reads; texts are sequences of characters.              *)
(***************************************************************************)
MaxFlushes      == 3   \* Recognizer calls the monitor makes over a run
MaxBursts       == 2   \* capture bursts between two drains of the raw buffer
MaxSilenceCount == 3   \* silence_frame_count_ is not counted beyond this

hardware_sr_           == 48000
CONTINUOUS_MIN_SAMPLES == 24000
MIN_SAMPLES            == 8000
FRAME                  == 4096

\* What a run of capture_loop iterations adds to the raw buffer: one frame
\* (too short to transcribe) or 25 s of audio (two of them need chunking).
BurstSizes == {FRAME, 1200000}

Digits == <<"0", "1", "2", "3", "4", "5", "6", "7", "8", "9">>
LongTextLen == 249
LongText == [k \in 1..LongTextLen |-> Digits[(k % 10) + 1]]

\* What TranscriptionResult::full_text() can be after a Recognizer call: the
\* segments' texts concatenated; <<>> for no segments (also a failed call).
RecognizerTexts ==
    {<<>>,
     <<" ", "h", "e", "l", "l", "o", " ", "w", "o", "r", "l", "d">>,
     <<" ", "f", "o", "o", " ", "b", "a", "r", "\n">>,
     <<" ", "T", "h", "a", "n", "k", " ", "y", "o", "u", ".">>,
     LongText}

\* What whisper_full leaves for a Recognizer call of the monitor or of
\* transcribe_and_output: a non-zero result, or result 0 with the text in at
\* most one segment.
PLOutcomes ==
    {[result |-> 1, segments |-> <<>>]} \cup
    {[result |-> 0,
      segments |-> IF t = <<>> THEN <<>>
                   ELSE <<[text |-> t, t0 |-> 0, t1 |-> 0]>>] : t \in RecognizerTexts}

\* What the callers make of a returned result: lines 134-137 (and 191-193)
\* trim its full_text, line 139 runs the filter on the trimmed text.
RecognizerReturns ==
    {[outcome |-> w,
      failed |-> w.result # 0,
      full_text |-> full_text(transcribe(0, w)),
      text |-> trim(full_text(transcribe(0, w))),
      is_hallucination |-> is_hallucination(trim(full_text(transcribe(0, w))))] :
        w \in PLOutcomes}

ReturnOf(w) == CHOOSE r \in RecognizerReturns : r.outcome = w

\* AudioEngine::resample(input, hardware_sr_, 16000), as the output length:
\* size / ratio truncated, where ratio = hardware_sr_ / 16000 is the whole
\* number 3 for the only rate prepare() asks for.
resample(n) ==
    IF hardware_sr_ = 16000 \/ n = 0 THEN n ELSE n \div (hardware_sr_ \div 16000)

\* continuous_loop lines 124-130: the prompt handed to transcribe(); <<>> is
\* the null prompt_ptr, <<p>> a pointer to the string p.
context_prompt(context) ==
    IF context # <<>>
    THEN LET start == IF Len(context) > 200 THEN Len(context) - 200 ELSE 0
         IN  <<SubSeq(context, start + 1, Len(context))>>
    ELSE <<>>

\* A commit that appends and never cuts.
append_context_uncapped(context, text) == context \o <<" ">> \o text

\* continuous_loop lines 145-148: the accepted text joins the context.
append_context(context, text) ==
    LET appended == context \o <<" ">> \o text
    IN  IF Len(appended) > 500
        THEN SubSeq(appended, Len(appended) - 300 + 1, Len(appended))
        ELSE appended

\* A stop call that transcribes whatever it drained.
too_short_never(samples) == FALSE

\* stop_recording_and_transcribe line 57.
too_short(samples) == samples < MIN_SAMPLES

\* A transcribe_and_output that goes on without a model.
no_recognizer_unchecked(c) == FALSE

\* transcribe_and_output line 174: if (!ctx_) return {}.
no_recognizer(c) == ~c

\* A transcribe_and_output that hands every buffer over whole.
needs_chunking_never(n) == FALSE

\* transcribe_and_output line 180.
needs_chunking(n) == n > MAX_CHUNK_SAMPLES

\* A stop that does not wait for the monitor thread.
joined_at_once(pc) == TRUE

\* stop_continuous_monitor line 89: join() returns once the thread has
\* finished (at once when no thread was started).
joined(pc) == pc \in {"none", "exited"}

\* The history of one stop_recording_and_transcribe call before it has done
\* anything.  buffered: the session had no monitor; samples: the resampled
\* length it drained; label: the ordinal of its drain, one more than the
\* monitor's Recognizer calls begun before it; failed: <<the result>> of its
\* latest Recognizer call if that failed; last_segments: the segments of its
\* only or last Recognizer call's result.  A call that a new session finds
\* still running is stale: it keeps its counts only and leaves no history.
NoStopLog ==
    [buffered |-> FALSE, samples |-> 0, label |-> 0, calls |-> 0, failed |-> <<>>,
     outputs |-> 0, starts |-> 0, ends |-> 0, returned |-> "none",
     stale |-> FALSE, last_segments |-> <<>>]

\* The history of the session's outputs before there is one.  A monitor
\* output is labelled with the ordinal of the monitor's Recognizer call that
\* transcribed its audio, the stop call's output with the stop call's label.
\* recorded: the perf_.record() calls of the session.
NoOutput == [n |-> 0, by |-> "none", label |-> 0, recorded |-> 0]

PLIdle ==
    /\ recording_ = FALSE /\ transcribing_ = FALSE
    /\ continuous_running_ = FALSE /\ silence_frame_count_ = 0
    /\ last_context_text_ = <<>> /\ did_output_ = FALSE
    /\ ctx_ = FALSE /\ transcription_mode = "continuous"
    /\ collecting_ = FALSE /\ raw_count = 0 /\ is_speaking = FALSE
    /\ m_pc = "none" /\ m_resampled = 0 /\ m_prompt = <<>>
    /\ s_pc = "idle" /\ s_samples = 0 /\ s_offset = 0 /\ s_all_segments = <<>>
    /\ commits = <<>> /\ n_flushes = 0 /\ n_bursts = 0
    /\ m_failed = <<>> /\ m_text = <<>> /\ s_log = NoStopLog /\ out_last = NoOutput

\* After construction and start-up: a model is loaded or (load failed and was
\* reported) none is; the mode is the one the settings file holds.
PLInit ==
    /\ recording_ = FALSE /\ transcribing_ = FALSE
    /\ continuous_running_ = FALSE /\ silence_frame_count_ = 0
    /\ last_context_text_ = <<>> /\ did_output_ = FALSE
    /\ ctx_ \in BOOLEAN /\ transcription_mode \in {"continuous", "buffered"}
    /\ collecting_ = FALSE /\ raw_count = 0 /\ is_speaking = FALSE
    /\ m_pc = "none" /\ m_resampled = 0 /\ m_prompt = <<>>
    /\ s_pc = "idle" /\ s_samples = 0 /\ s_offset = 0 /\ s_all_segments = <<>>
    /\ commits = <<>> /\ n_flushes = 0 /\ n_bursts = 0
    /\ m_failed = <<>> /\ m_text = <<>> /\ s_log = NoStopLog /\ out_last = NoOutput

\* A start_recording that does not look at recording_.
already_recording_unchecked(r) == FALSE

\* Line 33: if (recording_) return.
already_recording(r) == r

\* start_recording(), lines 32-47, with AudioEngine::start_recording and
\* start_continuous_monitor.  The histories of the session begin anew; a stop
\* call of the session before that is still running is marked stale.
StartRecording ==
    IF already_recording(recording_)
    THEN UNCHANGED plVars
    ELSE /\ last_context_text_' = <<>>
         /\ did_output_' = FALSE
         /\ is_speaking' = FALSE /\ raw_count' = 0 /\ collecting_' = TRUE
         /\ recording_' = TRUE
         /\ IF transcription_mode = "continuous"
            THEN /\ silence_frame_count_' = 0
                 /\ continuous_running_' = TRUE
                 /\ m_pc' = "sleep"
            ELSE UNCHANGED <<silence_frame_count_, continuous_running_, m_pc>>
         /\ commits' = <<>> /\ n_bursts' = 0
         /\ m_failed' = <<>> /\ m_text' = <<>> /\ out_last' = NoOutput
         /\ s_log' = IF s_pc = "idle" THEN NoStopLog
                    ELSE [s_log EXCEPT !.stale = TRUE, !.buffered = FALSE,
                                       !.label = 0]
         /\ UNCHANGED <<transcribing_, ctx_, transcription_mode, m_resampled,
                        m_prompt, s_pc, s_samples, s_offset,
                        s_all_segments, n_flushes>>

\* The control channel's "continuous on" / "continuous off".
SetTranscriptionMode ==
    /\ transcription_mode' = IF transcription_mode = "continuous"
                             THEN "buffered" ELSE "continuous"
    /\ UNCHANGED <<recording_, transcribing_, continuous_running_,
                   silence_frame_count_, last_context_text_, did_output_, ctx_,
                   collecting_, raw_count, is_speaking, m_pc, m_resampled,
                   m_prompt, s_pc, s_samples, s_offset,
                   s_all_segments, commits, n_flushes, n_bursts,
                   m_failed, m_text, s_log, out_last>>

\* capture_loop while collecting_: some iterations' filtered output reaches
\* the raw buffer and the detector's is_speaking ends as the audio left it.
CaptureBurst ==
    /\ collecting_
    /\ n_bursts < MaxBursts
    /\ n_flushes < MaxFlushes
    /\ \E n \in BurstSizes, speaking \in BOOLEAN :
          /\ raw_count' = raw_count + n
          /\ is_speaking' = speaking
    /\ n_bursts' = n_bursts + 1
    /\ UNCHANGED <<recording_, transcribing_, continuous_running_,
                   silence_frame_count_, last_context_text_, did_output_, ctx_,
                   transcription_mode, collecting_, m_pc, m_resampled,
                   m_prompt, s_pc, s_samples, s_offset,
                   s_all_segments, commits, n_flushes, m_failed, m_text,
                   s_log, out_last>>

\* A wake-up that flushes without looking at transcribing_.
MonitorWakeWhileTranscribing ==
    /\ m_pc = "sleep"
    /\ \/ ~continuous_running_
       \/ is_speaking
       \/ silence_frame_count_ < MaxSilenceCount
    /\ IF ~continuous_running_
       THEN /\ m_pc' = "exited"
            /\ UNCHANGED silence_frame_count_
       ELSE LET buf_count      == raw_count
                count          == IF is_speaking THEN 0
                                  ELSE silence_frame_count_ + 1
                pause_detected == buf_count > 0 /\ count >= 3
                buffer_full    == buf_count > hardware_sr_ * 25
                min_raw        == (CONTINUOUS_MIN_SAMPLES * hardware_sr_) \div 16000
            IN  /\ silence_frame_count_' = count
                /\ m_pc' = IF ~pause_detected /\ ~buffer_full
                           THEN "sleep"
                           ELSE IF buf_count < min_raw THEN "sleep" ELSE "drain"
    /\ m_failed' = <<>> /\ m_text' = <<>>
    /\ UNCHANGED <<recording_, transcribing_, continuous_running_,
                   last_context_text_, did_output_, ctx_, transcription_mode,
                   collecting_, raw_count, is_speaking, m_resampled, m_prompt,
                   s_pc, s_samples, s_offset, s_all_segments, commits,
                   n_flushes, n_bursts, s_log, out_last>>

\* continuous_loop lines 93-112: the wake-up after the sleep, up to the
\* decision to flush.
MonitorWake ==
    /\ m_pc = "sleep"
    /\ \/ ~continuous_running_
       \/ is_speaking
       \/ silence_frame_count_ < MaxSilenceCount
    /\ IF ~continuous_running_
       THEN /\ m_pc' = "exited"
            /\ UNCHANGED silence_frame_count_
       ELSE LET buf_count      == raw_count
                count          == IF is_speaking THEN 0
                                  ELSE silence_frame_count_ + 1
                pause_detected == buf_count > 0 /\ count >= 3
                buffer_full    == buf_count > hardware_sr_ * 25
                min_raw        == (CONTINUOUS_MIN_SAMPLES * hardware_sr_) \div 16000
            IN  /\ silence_frame_count_' = count
                /\ m_pc' = IF (~pause_detected /\ ~buffer_full) \/ transcribing_
                           THEN "sleep"
                           ELSE IF buf_count < min_raw THEN "sleep" ELSE "drain"
    /\ m_failed' = <<>> /\ m_text' = <<>>
    /\ UNCHANGED <<recording_, transcribing_, continuous_running_,
                   last_context_text_, did_output_, ctx_, transcription_mode,
                   collecting_, raw_count, is_speaking, m_resampled, m_prompt,
                   s_pc, s_samples, s_offset, s_all_segments, commits,
                   n_flushes, n_bursts, s_log, out_last>>

\* A flush that hands the Recognizer the first MAX_CHUNK_SAMPLES samples of
\* what it drained and drops the rest.
MonitorDrainCapped ==
    /\ m_pc = "drain"
    /\ raw_count' = 0 /\ n_bursts' = 0
    /\ IF ~ctx_
       THEN /\ m_pc' = "sleep"
            /\ UNCHANGED <<transcribing_, m_resampled, m_prompt, n_flushes>>
       ELSE /\ transcribing_' = TRUE
            /\ m_resampled' = Min(resample(raw_count), MAX_CHUNK_SAMPLES)
            /\ m_prompt' = context_prompt(last_context_text_)
            /\ n_flushes' = n_flushes + 1
            /\ m_pc' = "call"
    /\ UNCHANGED <<recording_, continuous_running_, silence_frame_count_,
                   last_context_text_, did_output_, ctx_, transcription_mode,
                   collecting_, is_speaking, s_pc, s_samples, s_offset,
                   s_all_segments, commits, m_failed, m_text, s_log, out_last>>

\* continuous_loop lines 114-132: drain, resample, and with a model loaded
\* the call of transcribe(resampled, prompt_ptr).
MonitorDrain ==
    /\ m_pc = "drain"
    /\ raw_count' = 0 /\ n_bursts' = 0
    /\ IF ~ctx_
       THEN /\ m_pc' = "sleep"
            /\ UNCHANGED <<transcribing_, m_resampled, m_prompt, n_flushes>>
       ELSE /\ transcribing_' = TRUE
            /\ m_resampled' = resample(raw_count)
            /\ m_prompt' = context_prompt(last_context_text_)
            /\ n_flushes' = n_flushes + 1
            /\ m_pc' = "call"
    /\ UNCHANGED <<recording_, continuous_running_, silence_frame_count_,
                   last_context_text_, did_output_, ctx_, transcription_mode,
                   collecting_, is_speaking, s_pc, s_samples, s_offset,
                   s_all_segments, commits, m_failed, m_text, s_log, out_last>>

\* A monitor that records every returned result in the performance
\* statistics, as transcribe_and_output does.
MonitorReturnRecordsRejected ==
    /\ m_pc = "call"
    /\ \E w \in PLOutcomes :
          LET r      == ReturnOf(w)
              result == transcribe(m_resampled, w)
          IN  /\ IF r.text = <<>> \/ r.is_hallucination
                 THEN /\ UNCHANGED <<last_context_text_, did_output_, commits>>
                      /\ out_last' = [out_last EXCEPT !.recorded = @ + 1]
                 ELSE /\ last_context_text_' =
                            append_context(last_context_text_, r.text)
                      /\ did_output_' = TRUE
                      /\ commits' = Append(commits, r.text)
                      /\ out_last' = [n |-> out_last.n + 1, by |-> "monitor",
                                      label |-> n_flushes,
                                      recorded |-> out_last.recorded + 1]
              /\ m_failed' = IF w.result # 0 THEN <<result>> ELSE <<>>
              /\ m_text' = <<r.text>>
    /\ transcribing_' = FALSE
    /\ m_resampled' = 0 /\ m_prompt' = <<>>
    /\ m_pc' = "sleep"
    /\ UNCHANGED <<recording_, continuous_running_, silence_frame_count_, ctx_,
                   transcription_mode, collecting_, raw_count, is_speaking,
                   s_pc, s_samples, s_offset, s_all_segments,
                   n_flushes, n_bursts, s_log>>

\* continuous_loop lines 132-157: transcribe() returns; trim, filter, commit
\* and output.  The iteration's locals end with it.
MonitorReturn ==
    /\ m_pc = "call"
    /\ \E w \in PLOutcomes :
          LET r      == ReturnOf(w)
              result == transcribe(m_resampled, w)
          IN  /\ IF r.text = <<>> \/ r.is_hallucination
                 THEN UNCHANGED <<last_context_text_, did_output_, commits,
                                  out_last>>
                 ELSE /\ last_context_text_' =
                            append_context(last_context_text_, r.text)
                      /\ did_output_' = TRUE
                      /\ commits' = Append(commits, r.text)
                      /\ out_last' = [n |-> out_last.n + 1, by |-> "monitor",
                                      label |-> n_flushes,
                                      recorded |-> out_last.recorded + 1]
              /\ m_failed' = IF w.result # 0 THEN <<result>> ELSE <<>>
              /\ m_text' = <<r.text>>
    /\ transcribing_' = FALSE
    /\ m_resampled' = 0 /\ m_prompt' = <<>>
    /\ m_pc' = "sleep"
    /\ UNCHANGED <<recording_, continuous_running_, silence_frame_count_, ctx_,
                   transcription_mode, collecting_, raw_count, is_speaking,
                   s_pc, s_samples, s_offset, s_all_segments,
                   n_flushes, n_bursts, s_log>>

\* stop_recording_and_transcribe() line 50 and stop_continuous_monitor()
\* line 88: the flag is cleared, then the thread is joined.
StopBegin ==
    /\ s_pc = "idle"
    /\ recording_
    /\ continuous_running_' = FALSE
    /\ s_pc' = "join"
    /\ UNCHANGED <<recording_, transcribing_, silence_frame_count_,
                   last_context_text_, did_output_, ctx_, transcription_mode,
                   collecting_, raw_count, is_speaking, m_pc, m_resampled,
                   m_prompt, s_samples, s_offset, s_all_segments,
                   commits, n_flushes, n_bursts, m_failed, m_text, s_log,
                   out_last>>

\* Lines 52-59 once join() has returned, with AudioEngine::stop_recording and
\* the head of transcribe_and_output, lines 174-184: with enough audio and a
\* model, the first (or only) Recognizer call begins.
StopJoin ==
    /\ s_pc = "join"
    /\ joined(m_pc)
    /\ m_pc' = IF m_pc = "exited" THEN "none" ELSE m_pc
    /\ collecting_' = FALSE /\ raw_count' = 0 /\ is_speaking' = FALSE
    /\ n_bursts' = 0
    /\ recording_' = FALSE
    /\ LET samples == resample(raw_count)
           log     == [NoStopLog EXCEPT !.buffered = (m_pc = "none"),
                                        !.samples = samples,
                                        !.label = n_flushes + 1]
       IN  IF too_short(samples) \/ no_recognizer(ctx_)
           THEN /\ s_pc' = "idle"
                /\ s_log' = [log EXCEPT !.returned = "empty"]
                /\ UNCHANGED <<transcribing_, s_samples>>
           ELSE /\ s_pc' = "call"
                /\ transcribing_' = TRUE
                /\ s_samples' = samples
                /\ s_log' = [log EXCEPT !.starts = 1, !.calls = 1]
    /\ UNCHANGED <<continuous_running_, silence_frame_count_,
                   last_context_text_, did_output_, ctx_, transcription_mode,
                   m_resampled, m_prompt, s_offset, s_all_segments,
                   commits, n_flushes, m_failed, m_text, out_last>>

\* transcribe_chunked lines 216-226 inside the stop call: the Recognizer has
\* returned for a chunk that is not the last; its segments are appended and
\* the call on the next chunk begins.
StopChunkReturn ==
    /\ s_pc = "call"
    /\ needs_chunking(s_samples)
    /\ chunk_end(s_offset, s_samples) < s_samples
    /\ \E w \in PLOutcomes :
          LET end          == chunk_end(s_offset, s_samples)
              chunk_result == transcribe(end - s_offset, w)
          IN  /\ s_all_segments' = s_all_segments
                                    \o chunk_segments(chunk_result, s_offset)
              /\ s_offset' = end
              /\ s_log' = [s_log EXCEPT
                              !.calls = @ + 1,
                              !.failed = IF w.result # 0 THEN <<chunk_result>>
                                         ELSE <<>>]
    /\ UNCHANGED <<recording_, transcribing_, continuous_running_,
                   silence_frame_count_, last_context_text_, did_output_, ctx_,
                   transcription_mode, collecting_, raw_count, is_speaking,
                   m_pc, m_resampled, m_prompt, s_pc, s_samples,
                   commits, n_flushes, n_bursts, m_failed, m_text, out_last>>

\* transcribe_and_output lines 186-199: the only or the last Recognizer call
\* has returned; the trimmed text, if any, is output.  The call's locals end
\* with it.
StopReturn ==
    /\ s_pc = "call"
    /\ ~needs_chunking(s_samples) \/ chunk_end(s_offset, s_samples) >= s_samples
    /\ \E w \in PLOutcomes :
          LET last_result == transcribe(chunk_end(s_offset, s_samples) - s_offset, w)
              segments    == IF needs_chunking(s_samples)
                             THEN s_all_segments
                                     \o chunk_segments(last_result, s_offset)
                             ELSE last_result.segments
              text        == trim(full_text([segments |-> segments]))
          IN  /\ did_output_' = IF text # <<>> THEN TRUE ELSE did_output_
              /\ out_last' = IF s_log.stale THEN out_last
                             ELSE IF text # <<>>
                             THEN [n |-> out_last.n + 1, by |-> "stop",
                                   label |-> s_log.label,
                                   recorded |-> out_last.recorded + 1]
                             ELSE [out_last EXCEPT !.recorded = @ + 1]
              /\ s_log' = IF s_log.stale THEN NoStopLog
                          ELSE [s_log EXCEPT
                                   !.failed = IF w.result # 0 THEN <<last_result>>
                                              ELSE <<>>,
                                   !.outputs = IF text # <<>> THEN @ + 1 ELSE @,
                                   !.last_segments = last_result.segments,
                                   !.ends = @ + 1,
                                   !.returned = "result"]
    /\ transcribing_' = FALSE
    /\ s_samples' = 0 /\ s_offset' = 0 /\ s_all_segments' = <<>>
    /\ s_pc' = "idle"
    /\ UNCHANGED <<recording_, continuous_running_, silence_frame_count_,
                   last_context_text_, ctx_, transcription_mode, collecting_,
                   raw_count, is_speaking, m_pc, m_resampled, m_prompt,
                   commits, n_flushes, n_bursts, m_failed, m_text>>

(***************************************************************************)
(* transcribe_chunked on its own, for audio of the lengths it is handed.   *)
(***************************************************************************)
CHIdle ==
    /\ k_pc = "idle" /\ k_samples = 0 /\ k_offset = 0
    /\ k_all_segments = <<>> /\ k_calls = <<>> /\ k_result = <<>>

\* transcribe_chunked(samples), lines 212-215.
ChunkedCall ==
    /\ k_pc = "idle"
    /\ k_samples' \in ChunkedLengths
    /\ k_offset' = 0
    /\ k_all_segments' = <<>>
    /\ k_calls' = <<>> /\ k_result' = <<>>
    /\ k_pc' = "loop"

\* One iteration of the while loop, lines 216-226: the chunk is cut, the
\* Recognizer is called on it with no prompt and its segments are appended.
ChunkedIteration ==
    /\ k_pc = "loop"
    /\ k_offset < k_samples
    /\ LET end == chunk_end(k_offset, k_samples)
       IN  \E w \in WhisperOutcomes(end - k_offset) :
              LET chunk_result == transcribe(end - k_offset, w)
              IN  /\ k_all_segments' = k_all_segments
                                        \o chunk_segments(chunk_result, k_offset)
                  /\ k_calls' = Append(k_calls,
                                       [from |-> k_offset, to |-> end,
                                        prompt |-> <<>>, outcome |-> w,
                                        result |-> chunk_result])
                  /\ k_offset' = end
    /\ UNCHANGED <<k_pc, k_samples, k_result>>

\* Lines 216 and 229-233: the loop ends and the result is returned.
ChunkedReturn ==
    /\ k_pc = "loop"
    /\ k_offset >= k_samples
    /\ k_result' = <<[segments |-> k_all_segments,
                      audio_duration_ms |-> [num |-> k_samples, den |-> 16]]>>
    /\ k_pc' = "idle"
    /\ UNCHANGED <<k_samples, k_offset, k_all_segments, k_calls>>


(***************************************************************************)
(* The Recognizer's mutex (whisper_context.cpp, whisper_context.h) and      *)
(* load_model (transcription_pipeline.cpp lines 68-72).  mu_ is a member of *)
(* the WhisperContext instance; ctx_ owns the instance and load_model       *)
(* replaces it.  Instances are numbered 1, 2, ...; 0 is the null ctx_.      *)
(***************************************************************************)
MaxLoads == 2      \* load_model calls over a run

WCThreads   == {"monitor", "stop", "control"}
WCInstances == 1..(MaxLoads + 1)

WCIdle ==
    /\ w_ctx = 0 /\ w_alive = {}
    /\ w_mu = [i \in WCInstances |-> "free"]
    /\ w_pc = [t \in WCThreads |-> "idle"]
    /\ w_on = [t \in WCThreads |-> 0]
    /\ w_loads = 0 /\ w_crashed = FALSE

\* After start-up: load_first_available has loaded and warmed up instance 1,
\* or (it threw and main went on) ctx_ is null.
WCInit ==
    /\ w_ctx \in {0, 1} /\ w_alive = (IF w_ctx = 0 THEN {} ELSE {1})
    /\ w_mu = [i \in WCInstances |-> "free"]
    /\ w_pc = [t \in WCThreads |-> "idle"]
    /\ w_on = [t \in WCThreads |-> 0]
    /\ w_loads = 0 /\ w_crashed = FALSE

\* ctx_->transcribe(...) as the monitor (line 132) or the stop call (lines
\* 183 and 219, once per chunk) makes it: ctx_ is read and the call entered.
TranscribeCall ==
    /\ ~w_crashed
    /\ \E t \in {"monitor", "stop"} :
          /\ w_pc[t] = "idle"
          /\ w_ctx # 0
          /\ w_pc' = [w_pc EXCEPT ![t] = "lock"]
          /\ w_on' = [w_on EXCEPT ![t] = w_ctx]
    /\ UNCHANGED <<w_ctx, w_alive, w_mu, w_loads, w_crashed>>

\* whisper_context.cpp line 36: lock_guard takes this instance's mu_, and the
\* call goes on to whisper_full.  Locking the mutex of a destroyed instance is
\* undefined: the process dies or the thread goes on.
TranscribeLock ==
    /\ ~w_crashed
    /\ \E t \in WCThreads :
          /\ w_pc[t] = "lock"
          /\ IF w_on[t] \in w_alive
             THEN /\ w_mu[w_on[t]] = "free"
                  /\ w_mu' = [w_mu EXCEPT ![w_on[t]] = t]
                  /\ w_pc' = [w_pc EXCEPT ![t] = "infer"]
                  /\ UNCHANGED w_crashed
             ELSE /\ \E crash \in BOOLEAN :
                        /\ w_crashed' = crash
                        /\ w_pc' = IF crash THEN w_pc
                                   ELSE [w_pc EXCEPT ![t] = "infer"]
                  /\ UNCHANGED w_mu
    /\ UNCHANGED <<w_ctx, w_alive, w_on, w_loads>>

\* whisper_context.cpp lines 74-98: whisper_full has returned, the result is
\* built and the lock_guard releases mu_.
TranscribeReturn ==
    /\ ~w_crashed
    /\ \E t \in WCThreads :
          /\ w_pc[t] = "infer"
          /\ w_pc' = [w_pc EXCEPT ![t] = "idle"]
          /\ w_on' = [w_on EXCEPT ![t] = 0]
          /\ w_mu' = IF w_on[t] \in w_alive /\ w_mu[w_on[t]] = t
                     THEN [w_mu EXCEPT ![w_on[t]] = "free"]
                     ELSE w_mu
    /\ UNCHANGED <<w_ctx, w_alive, w_loads, w_crashed>>

\* load_model line 69, on the control channel's thread: a new WhisperContext
\* is made and assigned to ctx_, which destroys the one ctx_ held
\* (~WhisperContext calls whisper_free).  Destroying an instance a thread is
\* inside of is undefined: the process dies or the thread goes on.
LoadModel ==
    /\ ~w_crashed
    /\ w_pc["control"] = "idle"
    /\ w_loads < MaxLoads
    /\ LET new    == w_loads + 2
           in_use == \E t \in WCThreads : w_on[t] = w_ctx /\ w_ctx # 0
       IN  /\ w_alive' = (w_alive \ {w_ctx}) \cup {new}
           /\ w_ctx' = new
           /\ w_crashed' \in (IF in_use THEN BOOLEAN ELSE {FALSE})
    /\ w_loads' = w_loads + 1
    /\ w_pc' = [w_pc EXCEPT !["control"] = "loaded"]
    /\ UNCHANGED <<w_mu, w_on>>

\* load_model line 70 and warmup() line 29: transcribe(silence) on the new
\* instance.
Warmup ==
    /\ ~w_crashed
    /\ w_pc["control"] = "loaded"
    /\ w_pc' = [w_pc EXCEPT !["control"] = "lock"]
    /\ w_on' = [w_on EXCEPT !["control"] = w_ctx]
    /\ UNCHANGED <<w_ctx, w_alive, w_mu, w_loads, w_crashed>>

(***************************************************************************)
(* The audio engine's threads around the detector (audio_engine.cpp): the  *)
(* capture thread's loop, start_recording / stop_recording / release on    *)
(* the calling thread, and the monitor's read of vad.is_speaking           *)
(* (transcription_pipeline.cpp line 99).  vad_ is a plain member and       *)
(* is_speaking a plain bool; collecting_ and running_ are atomics.         *)
(***************************************************************************)
MaxBuffered == 2   \* frames the raw buffer holds before capture is held back
MaxReads    == 3   \* frames the capture thread reads in one behaviour

\* A frame's rms as thousandths; RmsNaN stands for a rms that is not a number
\* (a frame holding a NaN sample).
RmsNaN    == -1
RmsValues == {0, 300, 1000, 1500, RmsNaN}

\* operator< on floats: false when either side is not a number.
FloatLess(a, b) == a # RmsNaN /\ b # RmsNaN /\ a < b

\* Line 136: std::min(1.0f, rms), which is rms when rms < 1.0f and 1.0f
\* otherwise.
level_unclamped(rms) == rms

level_of(rms) == IF FloatLess(rms, 1000) THEN rms ELSE 1000

\* Lines 60 and 88: prepare() opens a stream only when there is none.
needs_prepare_always(pa) == TRUE

needs_prepare(pa) == ~pa

NoReadFailure == [failed |-> FALSE, started |-> FALSE]

AEIdle ==
    /\ cap_pc = "off" /\ cap_filtered = 0 /\ running_ = FALSE
    /\ e_pc = "idle" /\ mon_pc = "none" /\ mon_seen = FALSE
    /\ keep_mic_warm = TRUE
    /\ pa_ = FALSE /\ audio_level_ = 0 /\ cap_rms = 0 /\ cap_reads = 0
    /\ cap_hist = NoReadFailure

\* After construction: no stream is open; keep_mic_warm is as the settings
\* file has it.
AEInit ==
    /\ cap_pc = "off" /\ cap_filtered = 0 /\ running_ = FALSE
    /\ e_pc = "idle" /\ mon_pc = "none" /\ mon_seen = FALSE
    /\ keep_mic_warm \in BOOLEAN
    /\ pa_ = FALSE /\ audio_level_ = 0 /\ cap_rms = 0 /\ cap_reads = 0
    /\ cap_hist = NoReadFailure

\* AudioEngine::start_recording lines 87-89: prepare() (lines 59-85) opens
\* the stream and starts the capture thread if pa_ is null, and returns with
\* pa_ still null if pa_simple_new fails; vad_.reset() is entered.
EngineStart ==
    /\ e_pc = "idle"
    /\ IF needs_prepare(pa_)
       THEN \E opened \in BOOLEAN :
               IF opened
               THEN pa_' = TRUE /\ running_' = TRUE /\ cap_pc' = "read"
               ELSE UNCHANGED <<pa_, running_, cap_pc>>
       ELSE UNCHANGED <<pa_, running_, cap_pc>>
    /\ e_pc' = "start_reset"
    /\ UNCHANGED <<cap_filtered, mon_pc, mon_seen, keep_mic_warm,
                   audio_level_, cap_rms, cap_reads, cap_hist,
                   collecting_, raw_count, is_speaking, continuous_running_>>

\* Line 89: vad_.reset() has written the detector's fields.
EngineStartReset ==
    /\ e_pc = "start_reset"
    /\ is_speaking' = FALSE
    /\ e_pc' = "start_drain"
    /\ UNCHANGED <<cap_pc, cap_filtered, running_, mon_pc, mon_seen,
                   keep_mic_warm, pa_, audio_level_, cap_rms, cap_reads,
                   cap_hist, collecting_, raw_count, continuous_running_>>

\* Lines 90-91, and start_continuous_monitor
\* (transcription_pipeline.cpp lines 81-85) in continuous mode.
EngineStartCollect ==
    /\ e_pc = "start_drain"
    /\ raw_count' = 0
    /\ collecting_' = TRUE
    /\ \E continuous \in BOOLEAN :
          IF continuous
          THEN continuous_running_' = TRUE /\ mon_pc' = "sleep"
          ELSE UNCHANGED <<continuous_running_, mon_pc>>
    /\ cap_hist' = [cap_hist EXCEPT !.started = cap_hist.failed]
    /\ e_pc' = "recording"
    /\ UNCHANGED <<cap_pc, cap_filtered, running_, mon_seen, keep_mic_warm,
                   pa_, audio_level_, cap_rms, cap_reads, is_speaking>>

\* stop_continuous_monitor (transcription_pipeline.cpp line 88): the running
\* flag is cleared.
EngineStopFlag ==
    /\ e_pc = "recording"
    /\ continuous_running_' = FALSE
    /\ e_pc' = "stop_join"
    /\ UNCHANGED <<cap_pc, cap_filtered, running_, mon_pc, mon_seen,
                   keep_mic_warm, pa_, audio_level_, cap_rms, cap_reads,
                   cap_hist, collecting_, raw_count, is_speaking>>

\* stop_continuous_monitor line 89 has joined the monitor, if there is one;
\* AudioEngine::stop_recording line 96.
EngineStop ==
    /\ e_pc = "stop_join"
    /\ mon_pc \in {"none", "exited"}
    /\ mon_pc' = "none"
    /\ collecting_' = FALSE
    /\ e_pc' = "stop_drain"
    /\ UNCHANGED <<cap_pc, cap_filtered, running_, mon_seen, keep_mic_warm,
                   pa_, audio_level_, cap_rms, cap_reads, cap_hist,
                   raw_count, is_speaking, continuous_running_>>

\* Line 98; vad_.reset() is entered.
EngineStopDrain ==
    /\ e_pc = "stop_drain"
    /\ raw_count' = 0
    /\ e_pc' = "stop_reset"
    /\ UNCHANGED <<cap_pc, cap_filtered, running_, mon_pc, mon_seen,
                   keep_mic_warm, pa_, audio_level_, cap_rms, cap_reads,
                   cap_hist, collecting_, is_speaking, continuous_running_>>

\* Line 99: vad_.reset() has written the detector's fields; then
\* stop_recording_and_transcribe line 54 and release() lines 114-115.
EngineStopReset ==
    /\ e_pc = "stop_reset"
    /\ is_speaking' = FALSE
    /\ IF keep_mic_warm
       THEN e_pc' = "idle" /\ UNCHANGED running_
       ELSE e_pc' = "release" /\ running_' = FALSE
    /\ UNCHANGED <<cap_pc, cap_filtered, mon_pc, mon_seen, keep_mic_warm,
                   pa_, audio_level_, cap_rms, cap_reads, cap_hist,
                   collecting_, raw_count, continuous_running_>>

\* release() lines 116-120: the capture thread is joined, the stream freed.
EngineReleaseJoin ==
    /\ e_pc = "release"
    /\ cap_pc = "off"
    /\ pa_' = FALSE
    /\ cap_hist' = NoReadFailure
    /\ e_pc' = "idle"
    /\ UNCHANGED <<cap_pc, cap_filtered, running_, mon_pc, mon_seen,
                   keep_mic_warm, audio_level_, cap_rms, cap_reads,
                   collecting_, raw_count, is_speaking, continuous_running_>>

\* capture_loop lines 127-140: the loop test, which ends the thread once
\* running_ is clear; one frame read; the level stored; collecting_ tested
\* and, if set, vad_.process entered.
CaptureFrame ==
    /\ cap_pc = "read"
    /\ IF ~running_
       THEN /\ cap_pc' = "off"
            /\ UNCHANGED <<audio_level_, cap_rms, cap_reads>>
       ELSE /\ raw_count < MaxBuffered * FRAME
            /\ cap_reads < MaxReads
            /\ \E rms \in RmsValues :
                  /\ cap_rms' = rms
                  /\ audio_level_' = level_of(rms)
            /\ cap_reads' = cap_reads + 1
            /\ cap_pc' = IF collecting_ THEN "process" ELSE "read"
    /\ UNCHANGED <<cap_filtered, running_, e_pc, mon_pc, mon_seen,
                   keep_mic_warm, pa_, cap_hist, collecting_, raw_count,
                   is_speaking, continuous_running_>>

\* Lines 128-131: pa_simple_read fails and the loop is left; running_ and
\* pa_ stay as they are.
CaptureReadFails ==
    /\ cap_pc = "read"
    /\ running_
    /\ cap_pc' = "off"
    /\ cap_hist' = [failed |-> TRUE, started |-> FALSE]
    /\ UNCHANGED <<cap_filtered, running_, e_pc, mon_pc, mon_seen,
                   keep_mic_warm, pa_, audio_level_, cap_rms, cap_reads,
                   collecting_, raw_count, is_speaking, continuous_running_>>

\* Line 140: vad_.process returns, having written the detector's fields.
CaptureProcess ==
    /\ cap_pc = "process"
    /\ \E speaking \in BOOLEAN, filtered \in {0, FRAME} :
          /\ is_speaking' = speaking
          /\ cap_filtered' = filtered
          /\ cap_pc' = IF filtered = 0 THEN "read" ELSE "append"
    /\ UNCHANGED <<running_, e_pc, mon_pc, mon_seen, keep_mic_warm,
                   pa_, audio_level_, cap_rms, cap_reads, cap_hist,
                   collecting_, raw_count, continuous_running_>>

\* Lines 141-143.
CaptureAppend ==
    /\ cap_pc = "append"
    /\ raw_count' = raw_count + cap_filtered
    /\ cap_filtered' = 0
    /\ cap_pc' = "read"
    /\ UNCHANGED <<running_, e_pc, mon_pc, mon_seen, keep_mic_warm,
                   pa_, audio_level_, cap_rms, cap_reads, cap_hist,
                   collecting_, is_speaking, continuous_running_>>

\* continuous_loop lines 93-99: the monitor wakes, leaves the loop if the
\* running flag is clear, and otherwise reads vad.is_speaking.
MonitorReadBeginUnchecked ==
    /\ mon_pc = "sleep"
    /\ mon_pc' = "reading"
    /\ UNCHANGED <<cap_pc, cap_filtered, running_, e_pc, mon_seen,
                   keep_mic_warm, pa_, audio_level_, cap_rms, cap_reads,
                   cap_hist, collecting_, raw_count, is_speaking,
                   continuous_running_>>

MonitorReadBegin ==
    /\ mon_pc = "sleep"
    /\ mon_pc' = IF continuous_running_ THEN "reading" ELSE "exited"
    /\ UNCHANGED <<cap_pc, cap_filtered, running_, e_pc, mon_seen,
                   keep_mic_warm, pa_, audio_level_, cap_rms, cap_reads,
                   cap_hist, collecting_, raw_count, is_speaking,
                   continuous_running_>>

\* The read has its value.  A read that races with process() may see either
\* value.  Lines 100-121: the iteration then goes back to sleep, or drains
\* the buffer and enters the Recognizer call.
MonitorReadEnd ==
    /\ mon_pc = "reading"
    /\ mon_seen' \in (IF cap_pc = "process" THEN BOOLEAN ELSE {is_speaking})
    /\ \E flush \in BOOLEAN :
          IF flush
          THEN raw_count > 0 /\ raw_count' = 0 /\ mon_pc' = "call"
          ELSE mon_pc' = "sleep" /\ UNCHANGED raw_count
    /\ UNCHANGED <<cap_pc, cap_filtered, running_, e_pc, keep_mic_warm,
                   pa_, audio_level_, cap_rms, cap_reads, cap_hist,
                   collecting_, is_speaking, continuous_running_>>

\* Lines 132-157: the Recognizer call returns, the flush is finished and the
\* monitor goes back to sleep.
MonitorFlushEnd ==
    /\ mon_pc = "call"
    /\ mon_pc' = "sleep"
    /\ UNCHANGED <<cap_pc, cap_filtered, running_, e_pc, mon_seen,
                   keep_mic_warm, pa_, audio_level_, cap_rms, cap_reads,
                   cap_hist, collecting_, raw_count, is_speaking,
                   continuous_running_>>

(***************************************************************************)
(* AudioEngine::resample (audio_engine.cpp lines 151-167).  Samples are     *)
(* floats and the positions are computed in doubles; both are kept here as  *)
(* binary floating-point numbers of a few bits, rounded to nearest, ties to *)
(* even, after every operation as the hardware does.  A number is the       *)
(* fraction [num, den], den a power of two, in lowest terms.                *)
(***************************************************************************)
FloatBits  == 6    \* significand bits of a float here (24 in the build)
DoubleBits == 12   \* significand bits of a double here (53 in the build)
MaxRate    == 7    \* from and to are 1 .. MaxRate
MaxLen     == 6    \* samples in the longest input

RECURSIVE Pow2(_)
Pow2(k) == IF k = 0 THEN 1 ELSE 2 * Pow2(k - 1)

\* num / den in lowest terms, den a power of two.
Lowest(num, den) ==
    IF num = 0 THEN [num |-> 0, den |-> 1]
    ELSE LET j == CHOOSE j \in 0..30 :
                     /\ Pow2(j) <= den /\ num % Pow2(j) = 0
                     /\ (Pow2(j) = den \/ num % Pow2(j + 1) # 0)
         IN  [num |-> num \div Pow2(j), den |-> den \div Pow2(j)]

\* The number of p significand bits nearest to num / den (0 <= num / den <
\* 2^p, any den > 0), ties to even.
RoundTo(p, num, den) ==
    IF num = 0 THEN [num |-> 0, den |-> 1]
    ELSE LET k == CHOOSE k \in 0..30 :
                     /\ num * Pow2(k) >= den * Pow2(p - 1)
                     /\ (k = 0 \/ num * Pow2(k - 1) < den * Pow2(p - 1))
             n == num * Pow2(k)
             q == n \div den
             r == n % den
             m == IF 2 * r > den \/ (2 * r = den /\ q % 2 = 1) THEN q + 1 ELSE q
         IN  Lowest(m, Pow2(k))

\* float * float, float + float and 1.0f - float.
FMul(a, b) == RoundTo(FloatBits, a.num * b.num, a.den * b.den)

FAdd(a, b) ==
    LET den == IF a.den >= b.den THEN a.den ELSE b.den
    IN  RoundTo(FloatBits, a.num * (den \div a.den) + b.num * (den \div b.den), den)

FOneMinus(f) == RoundTo(FloatBits, f.den - f.num, f.den)

\* An upper neighbour that is not clamped.
upper_neighbour_unclamped(idx0, size) == idx0 + 1

\* Line 163: idx1 = std::min(idx0 + 1, input.size() - 1).
upper_neighbour(idx0, size) == Min(idx0 + 1, size - 1)

\* Lines 154-155: ratio = from / to and out_count = (size_t)(size / ratio),
\* both divisions in doubles.
resample_ratio(from, to) == RoundTo(DoubleBits, from, to)

resample_out_count(size, from, to) ==
    LET ratio    == resample_ratio(from, to)
        quotient == RoundTo(DoubleBits, size * ratio.den, ratio.num)
    IN  quotient.num \div quotient.den

\* Lines 160-163 for output position i (from 0): src_idx in doubles, idx0 its
\* whole part, frac the rest as a float, idx1 the clamped upper neighbour.
resample_position(i, size, from, to) ==
    LET ratio   == resample_ratio(from, to)
        src_idx == RoundTo(DoubleBits, i * ratio.num, ratio.den)
        idx0    == src_idx.num \div src_idx.den
    IN  [idx0 |-> idx0,
         frac |-> RoundTo(FloatBits, src_idx.num - idx0 * src_idx.den, src_idx.den),
         idx1 |-> upper_neighbour(idx0, size)]

\* What input[idx] reads: the sample, or whatever lies beyond the vector.
ReadSample(input, idx) ==
    IF idx + 1 \in DOMAIN input THEN input[idx + 1] ELSE [num |-> 0, den |-> 1]

\* resample(input, from, to): the returned vector.
resample_output(input, from, to) ==
    IF from = to \/ input = <<>> THEN input
    ELSE [k \in 1..resample_out_count(Len(input), from, to) |->
             LET pos == resample_position(k - 1, Len(input), from, to)
             IN  FAdd(FMul(ReadSample(input, pos.idx0), FOneMinus(pos.frac)),
                      FMul(ReadSample(input, pos.idx1), pos.frac))]

\* The positions of input that the call reads (from 0).
resample_reads(input, from, to) ==
    IF from = to \/ input = <<>> THEN {}
    ELSE UNION {{resample_position(k - 1, Len(input), from, to).idx0,
                 resample_position(k - 1, Len(input), from, to).idx1} :
                   k \in 1..resample_out_count(Len(input), from, to)}

\* Sample values: 1, 3/4, and the floats nearest to 1/10 and 1/3.
SampleValues ==
    {[num |-> 1, den |-> 1], [num |-> 3, den |-> 4],
     RoundTo(FloatBits, 1, 10), RoundTo(FloatBits, 1, 3)}

\* The inputs: constant buffers, and a ramp 1, 2, 3, ...
ResampleInputs ==
    {[i \in 1..n |-> c] : n \in 0..MaxLen, c \in SampleValues}
       \cup {[i \in 1..n |-> [num |-> i, den |-> 1]] : n \in 2..MaxLen}

RSIdle ==
    /\ rs_input = <<>> /\ rs_from = 1 /\ rs_to = 1
    /\ rs_called = FALSE /\ rs_output = <<>> /\ rs_reads = {}

RSInit ==
    /\ rs_input \in ResampleInputs
    /\ rs_from \in 1..MaxRate /\ rs_to \in 1..MaxRate
    /\ rs_called = FALSE /\ rs_output = <<>> /\ rs_reads = {}

\* One call resample(rs_input, rs_from, rs_to).
ResampleCall ==
    /\ ~rs_called
    /\ rs_called' = TRUE
    /\ rs_output' = resample_output(rs_input, rs_from, rs_to)
    /\ rs_reads' = resample_reads(rs_input, rs_from, rs_to)
    /\ UNCHANGED <<rs_input, rs_from, rs_to>>

(***************************************************************************)
(* Specifications.                                                         *)
(***************************************************************************)
(***************************************************************************)
(* The threads that start and stop sessions (main.cpp lines 214-235,       *)
(* transcription_pipeline.cpp lines 32-60, 81-158 and 173-200).  The       *)
(* hotkey thread runs start_recording inside on_key_down; every key-up     *)
(* spawns a detached thread that sleeps release_delay_ms and then calls    *)
(* stop_recording_and_transcribe; the monitor is the std::thread held in   *)
(* continuous_thread_.  recording_, transcribing_ and continuous_running_  *)
(* are atomics; continuous_thread_ is a plain member.                      *)
(***************************************************************************)
MaxReleaseThreads == 2   \* detached release threads alive at once

ReleaseThreads == 1 .. MaxReleaseThreads

HKIdle ==
    /\ hk_down = FALSE /\ h_pc = "idle"
    /\ r_pc = [t \in ReleaseThreads |-> "none"]
    /\ continuous_thread_ = "none" /\ loop_pc = "sleep"
    /\ ev_open = 0 /\ hk_crashed = FALSE

\* main.cpp line 214 and start_recording line 33: the key goes down and
\* start_recording returns at once if a session is being recorded.
KeyDown ==
    /\ ~hk_crashed
    /\ ~hk_down /\ h_pc = "idle"
    /\ hk_down' = TRUE
    /\ h_pc' = IF recording_ THEN "idle" ELSE "begin"
    /\ UNCHANGED <<r_pc, continuous_thread_, loop_pc, ev_open, hk_crashed,
                   recording_, transcribing_, continuous_running_>>

\* start_recording lines 34-39.
HotkeyArm ==
    /\ ~hk_crashed
    /\ h_pc = "begin"
    /\ recording_' = TRUE
    /\ h_pc' = IF transcription_mode = "continuous" THEN "armed" ELSE "idle"
    /\ UNCHANGED <<hk_down, r_pc, continuous_thread_, loop_pc, ev_open,
                   hk_crashed, transcribing_, continuous_running_>>

\* start_continuous_monitor lines 82-84.  Assigning to a std::thread that is
\* still joinable calls std::terminate.
HotkeyStartMonitor ==
    /\ ~hk_crashed
    /\ h_pc = "armed"
    /\ continuous_running_' = TRUE
    /\ IF continuous_thread_ # "none"
       THEN hk_crashed' = TRUE /\ UNCHANGED <<continuous_thread_, loop_pc>>
       ELSE /\ continuous_thread_' = "running"
            /\ loop_pc' = "sleep"
            /\ UNCHANGED hk_crashed
    /\ h_pc' = "idle"
    /\ UNCHANGED <<hk_down, r_pc, ev_open, recording_, transcribing_>>

\* main.cpp lines 219-222: the key goes up and a detached thread is started,
\* which sleeps.
KeyUp ==
    /\ ~hk_crashed
    /\ hk_down /\ h_pc = "idle"
    /\ \E t \in ReleaseThreads :
          /\ r_pc[t] = "none"
          /\ r_pc' = [r_pc EXCEPT ![t] = "delay"]
    /\ hk_down' = FALSE
    /\ UNCHANGED <<h_pc, continuous_thread_, loop_pc, ev_open, hk_crashed,
                   recording_, transcribing_, continuous_running_>>

\* stop_recording_and_transcribe line 50.
ReleaseTest(t) ==
    /\ ~hk_crashed
    /\ r_pc[t] = "delay"
    /\ r_pc' = [r_pc EXCEPT ![t] = IF recording_ THEN "flag" ELSE "none"]
    /\ UNCHANGED <<hk_down, h_pc, continuous_thread_, loop_pc, ev_open,
                   hk_crashed, recording_, transcribing_,
                   continuous_running_>>

\* stop_continuous_monitor line 88.
ReleaseFlag(t) ==
    /\ ~hk_crashed
    /\ r_pc[t] = "flag"
    /\ continuous_running_' = FALSE
    /\ r_pc' = [r_pc EXCEPT ![t] = "join"]
    /\ UNCHANGED <<hk_down, h_pc, continuous_thread_, loop_pc, ev_open,
                   hk_crashed, recording_, transcribing_>>

\* Line 89: joinable() is tested and join() entered.  join() on a thread
\* another thread is joining is undefined: the process is terminated (the
\* second pthread_join fails and the exception leaves the thread) or the
\* call waits like the first.
ReleaseJoinEnter(t) ==
    /\ ~hk_crashed
    /\ r_pc[t] = "join"
    /\ IF continuous_thread_ = "none"
       THEN /\ r_pc' = [r_pc EXCEPT ![t] = "stop"]
            /\ UNCHANGED hk_crashed
       ELSE IF \E u \in ReleaseThreads \ {t} : r_pc[u] = "joining"
            THEN \E terminated \in BOOLEAN :
                    /\ hk_crashed' = terminated
                    /\ r_pc' = [r_pc EXCEPT ![t] = "joining"]
            ELSE /\ r_pc' = [r_pc EXCEPT ![t] = "joining"]
                 /\ UNCHANGED hk_crashed
    /\ UNCHANGED <<hk_down, h_pc, continuous_thread_, loop_pc, ev_open,
                   recording_, transcribing_, continuous_running_>>

\* Line 89: join() returns once the monitor has left its loop.
ReleaseJoinReturn(t) ==
    /\ ~hk_crashed
    /\ r_pc[t] = "joining"
    /\ continuous_thread_ \in {"exited", "none"}
    /\ continuous_thread_' = "none"
    /\ r_pc' = [r_pc EXCEPT ![t] = "stop"]
    /\ UNCHANGED <<hk_down, h_pc, loop_pc, ev_open, hk_crashed,
                   recording_, transcribing_, continuous_running_>>

\* stop_recording_and_transcribe lines 53-55.
ReleaseStop(t) ==
    /\ ~hk_crashed
    /\ r_pc[t] = "stop"
    /\ recording_' = FALSE
    /\ r_pc' = [r_pc EXCEPT ![t] = "decide"]
    /\ UNCHANGED <<hk_down, h_pc, continuous_thread_, loop_pc, ev_open,
                   hk_crashed, transcribing_, continuous_running_>>

\* Line 57 and transcribe_and_output lines 174-177: too few samples or no
\* model end the call; otherwise transcribing_ is set and
\* on_transcription_start called.
ReleaseTranscribe(t) ==
    /\ ~hk_crashed
    /\ r_pc[t] = "decide"
    /\ \E enough \in BOOLEAN :
          IF enough /\ ctx_
          THEN /\ transcribing_' = TRUE
               /\ ev_open' = ev_open + 1
               /\ r_pc' = [r_pc EXCEPT ![t] = "call"]
          ELSE /\ r_pc' = [r_pc EXCEPT ![t] = "none"]
               /\ UNCHANGED <<transcribing_, ev_open>>
    /\ UNCHANGED <<hk_down, h_pc, continuous_thread_, loop_pc, hk_crashed,
                   recording_, continuous_running_>>

\* transcribe_and_output lines 180-187: the Recognizer has returned.
ReleaseCallReturn(t) ==
    /\ ~hk_crashed
    /\ r_pc[t] = "call"
    /\ transcribing_' = FALSE
    /\ r_pc' = [r_pc EXCEPT ![t] = "output"]
    /\ UNCHANGED <<hk_down, h_pc, continuous_thread_, loop_pc, ev_open,
                   hk_crashed, recording_, continuous_running_>>

\* Lines 192-199: the text is put out and on_transcription_end called.
ReleaseEnd(t) ==
    /\ ~hk_crashed
    /\ r_pc[t] = "output"
    /\ ev_open' = ev_open - 1
    /\ r_pc' = [r_pc EXCEPT ![t] = "none"]
    /\ UNCHANGED <<hk_down, h_pc, continuous_thread_, loop_pc, hk_crashed,
                   recording_, transcribing_, continuous_running_>>

\* continuous_loop lines 93-122: the monitor wakes; it leaves the loop when
\* the running flag is clear, goes back to sleep, or (transcribing_ clear, a
\* model loaded) starts a flush: transcribing_ is set and
\* on_transcription_start called.
LoopWake ==
    /\ ~hk_crashed
    /\ continuous_thread_ = "running" /\ loop_pc = "sleep"
    /\ IF ~continuous_running_
       THEN /\ continuous_thread_' = "exited"
            /\ UNCHANGED <<loop_pc, transcribing_, ev_open>>
       ELSE \E flush \in BOOLEAN :
               IF flush /\ ~transcribing_ /\ ctx_
               THEN /\ transcribing_' = TRUE
                    /\ ev_open' = ev_open + 1
                    /\ loop_pc' = "call"
                    /\ UNCHANGED continuous_thread_
               ELSE UNCHANGED <<continuous_thread_, loop_pc, transcribing_,
                                ev_open>>
    /\ UNCHANGED <<hk_down, h_pc, r_pc, hk_crashed, recording_,
                   continuous_running_>>

\* Lines 132-133: the Recognizer has returned.
LoopCallReturn ==
    /\ ~hk_crashed
    /\ continuous_thread_ = "running" /\ loop_pc = "call"
    /\ transcribing_' = FALSE
    /\ loop_pc' = "output"
    /\ UNCHANGED <<hk_down, h_pc, r_pc, continuous_thread_, ev_open,
                   hk_crashed, recording_, continuous_running_>>

\* Lines 135-156: the text is dropped or put out and on_transcription_end
\* called, on either way.
LoopEnd ==
    /\ ~hk_crashed
    /\ continuous_thread_ = "running" /\ loop_pc = "output"
    /\ ev_open' = ev_open - 1
    /\ loop_pc' = "sleep"
    /\ UNCHANGED <<hk_down, h_pc, r_pc, continuous_thread_, hk_crashed,
                   recording_, transcribing_, continuous_running_>>

Init == RBInit /\ VADInit /\ HFIdle /\ PLIdle /\ CHIdle /\ WCIdle /\ AEIdle /\ RSIdle /\ HKIdle

RBNext == \/ AppendLock /\ UNCHANGED exceptRB
          \/ AppendInsert /\ UNCHANGED exceptRB
          \/ AppendUnlock /\ UNCHANGED exceptRB
          \/ DrainLock /\ UNCHANGED exceptRB
          \/ DrainSwap /\ UNCHANGED exceptRB
          \/ DrainUnlock /\ UNCHANGED exceptRB
          \/ Count /\ UNCHANGED exceptRB

SpecRB == Init /\ [][RBNext]_vars

VADNext == \/ ProcessCall /\ UNCHANGED exceptVAD
           \/ ProcessFrame /\ UNCHANGED exceptVAD
           \/ ProcessReturn /\ UNCHANGED exceptVAD
           \/ Reset /\ UNCHANGED exceptVAD
           \/ SetEnabled /\ UNCHANGED exceptVAD

SpecVAD == Init /\ [][VADNext]_vars

HFNext == CheckHallucination /\ UNCHANGED exceptHF

InitHF == RBInit /\ VADInit /\ HFInit /\ PLIdle /\ CHIdle /\ WCIdle /\ AEIdle /\ RSIdle /\ HKIdle

SpecHF == InitHF /\ [][HFNext]_vars

PLNext == \/ StartRecording /\ UNCHANGED exceptPL
          \/ SetTranscriptionMode /\ UNCHANGED exceptPL
          \/ CaptureBurst /\ UNCHANGED exceptPL
          \/ MonitorWake /\ UNCHANGED exceptPL
          \/ MonitorDrain /\ UNCHANGED exceptPL
          \/ MonitorReturn /\ UNCHANGED exceptPL
          \/ StopBegin /\ UNCHANGED exceptPL
          \/ StopJoin /\ UNCHANGED exceptPL
          \/ StopChunkReturn /\ UNCHANGED exceptPL
          \/ StopReturn /\ UNCHANGED exceptPL

InitPL == RBInit /\ VADInit /\ HFIdle /\ PLInit /\ CHIdle /\ WCIdle /\ AEIdle /\ RSIdle /\ HKIdle

SpecPL == InitPL /\ [][PLNext]_vars

CHNext == \/ ChunkedCall /\ UNCHANGED exceptCH
          \/ ChunkedIteration /\ UNCHANGED exceptCH
          \/ ChunkedReturn /\ UNCHANGED exceptCH

SpecCH == Init /\ [][CHNext]_vars

WCNext == \/ TranscribeCall /\ UNCHANGED exceptWC
          \/ TranscribeLock /\ UNCHANGED exceptWC
          \/ TranscribeReturn /\ UNCHANGED exceptWC
          \/ LoadModel /\ UNCHANGED exceptWC
          \/ Warmup /\ UNCHANGED exceptWC

InitWC == RBInit /\ VADInit /\ HFIdle /\ PLIdle /\ CHIdle /\ WCInit /\ AEIdle /\ RSIdle /\ HKIdle

SpecWC == InitWC /\ [][WCNext]_vars

AENext == \/ EngineStart /\ UNCHANGED exceptAE
          \/ EngineStartReset /\ UNCHANGED exceptAE
          \/ EngineStartCollect /\ UNCHANGED exceptAE
          \/ EngineStopFlag /\ UNCHANGED exceptAE
          \/ EngineStop /\ UNCHANGED exceptAE
          \/ EngineStopDrain /\ UNCHANGED exceptAE
          \/ EngineStopReset /\ UNCHANGED exceptAE
          \/ EngineReleaseJoin /\ UNCHANGED exceptAE
          \/ CaptureFrame /\ UNCHANGED exceptAE
          \/ CaptureReadFails /\ UNCHANGED exceptAE
          \/ CaptureProcess /\ UNCHANGED exceptAE
          \/ CaptureAppend /\ UNCHANGED exceptAE
          \/ MonitorReadBegin /\ UNCHANGED exceptAE
          \/ MonitorReadEnd /\ UNCHANGED exceptAE
          \/ MonitorFlushEnd /\ UNCHANGED exceptAE

InitAE == RBInit /\ VADInit /\ HFIdle /\ PLIdle /\ CHIdle /\ WCIdle /\ AEInit /\ RSIdle /\ HKIdle

SpecAE == InitAE /\ [][AENext]_vars

RSNext == ResampleCall /\ UNCHANGED exceptRS

InitRS == RBInit /\ VADInit /\ HFIdle /\ PLIdle /\ CHIdle /\ WCIdle /\ AEIdle /\ RSInit /\ HKIdle

SpecRS == InitRS /\ [][RSNext]_vars

HKNext == \/ KeyDown /\ UNCHANGED exceptHK
          \/ HotkeyArm /\ UNCHANGED exceptHK
          \/ HotkeyStartMonitor /\ UNCHANGED exceptHK
          \/ KeyUp /\ UNCHANGED exceptHK
          \/ \E t \in ReleaseThreads : ReleaseTest(t) /\ UNCHANGED exceptHK
          \/ \E t \in ReleaseThreads : ReleaseFlag(t) /\ UNCHANGED exceptHK
          \/ \E t \in ReleaseThreads : ReleaseJoinEnter(t) /\ UNCHANGED exceptHK
          \/ \E t \in ReleaseThreads : ReleaseJoinReturn(t) /\ UNCHANGED exceptHK
          \/ \E t \in ReleaseThreads : ReleaseStop(t) /\ UNCHANGED exceptHK
          \/ \E t \in ReleaseThreads : ReleaseTranscribe(t) /\ UNCHANGED exceptHK
          \/ \E t \in ReleaseThreads : ReleaseCallReturn(t) /\ UNCHANGED exceptHK
          \/ \E t \in ReleaseThreads : ReleaseEnd(t) /\ UNCHANGED exceptHK
          \/ LoopWake /\ UNCHANGED exceptHK
          \/ LoopCallReturn /\ UNCHANGED exceptHK
          \/ LoopEnd /\ UNCHANGED exceptHK

\* After start-up: a model is loaded or none is, the mode is the one the
\* settings file holds, no key has been pressed.
InitHK == RBInit /\ VADInit /\ HFIdle /\ PLInit /\ CHIdle /\ WCIdle /\ AEIdle /\ RSIdle /\ HKIdle

SpecHK == InitHK /\ [][HKNext]_vars

(***************************************************************************)
(* Claims about the ring buffer, checked under SpecRB.                     *)
(***************************************************************************)
\* The lengths at which one append block ends and the next begins.
BlockBoundaries ==
    {Len(Flatten(SubSeq(appended_log, 1, j))) : j \in 0..Len(appended_log)}

\* C1: under every interleaving of append and drain, the drain results in
\* drain order (with the one being returned), followed by what is still in
\* the buffer, are exactly the appended samples in append order, and every
\* drain result begins and ends at the boundary of an append block.
C1_EverySampleDrainedOnce ==
    /\ Flatten(drained_log) \o (IF c_pc = "swapped" THEN c_out ELSE <<>>) \o samples_
         = Flatten(appended_log) \o SubSeq(p_data, 1, p_i)
    /\ \A k \in 1..Len(drained_log) :
          Len(Flatten(SubSeq(drained_log, 1, k))) \in BlockBoundaries

\* A drain has returned a whole two-sample block while the producer is in
\* the middle of inserting the next block.
C1_Witness ==
    /\ p_pc = "insert" /\ p_i = 1 /\ Len(p_data) = 2
    /\ Len(drained_log) >= 1 /\ Len(drained_log[1]) = 2
    /\ Len(samples_) = 1

\* C2: a drain that follows appends A1..An (none of them drained before)
\* returns A1 || ... || An in append order, and a count() taken after the
\* drain and before any further append returns 0.
C2_DrainReturnsAppendsInOrder ==
    [][ /\ (c_pc = "locked" /\ c_pc' = "swapped") => c_out' = Flatten(pending_log)
        /\ (drain_after_drain /\ Count) => c_count' = 0 ]_vars

\* The first drain is returning two blocks, appended one after the other.
C2_Witness ==
    /\ c_pc = "swapped"
    /\ drained_log = <<>>
    /\ Len(appended_log) = 2
    /\ c_out = appended_log[1] \o appended_log[2]
    /\ samples_ = <<>>

\* C3: a drain that follows another drain with no append in between returns
\* the empty sequence.
C3_SecondDrainEmpty ==
    [][ (drain_after_drain /\ c_pc = "locked" /\ c_pc' = "swapped") => c_out' = <<>> ]_vars

\* Two drains have returned: the first everything ever appended, the second,
\* with no append since, nothing.
C3_Witness ==
    /\ Len(drained_log) = 2
    /\ drained_log[1] # <<>>
    /\ drained_log[1] = Flatten(appended_log)
    /\ drained_log[2] = <<>>
    /\ p_pc = "idle"

(***************************************************************************)
(* Claims about the voice activity detector, checked under SpecVAD.        *)
(***************************************************************************)
\* C4: a frame whose rms is strictly between silence_threshold and
\* speech_threshold emits nothing and leaves the detector in silence when it
\* arrives in silence or speech_onset, and is emitted and leaves the detector
\* in speaking when it arrives in speaking or speech_offset; over a run of
\* such frames the state does not change after the first frame.
C4_Hysteresis ==
    /\ \A k \in DOMAIN v_last :
          LET e == v_last[k]
          IN  IsBetweenFrame(e.frame) =>
                /\ e.pre.state \in {"silence", "speech_onset"} =>
                      (e.emitted = <<>> /\ vad.state = "silence")
                /\ e.pre.state \in {"speaking", "speech_offset"} =>
                      (IsSuffix(e.frame, e.emitted) /\ vad.state = "speaking")
    /\ g.run_stable

\* A run of two or more in-between frames that began in speech_offset: the
\* first frame moved the detector to speaking, where it still is.
C4_Witness ==
    /\ g.run >= 2
    /\ g.run_from = "speech_offset"
    /\ vad.state = "speaking"
    /\ v_last # <<>> /\ IsBetweenFrame(v_last[1].frame)

\* C5: a process() call made with is_enabled = false returns its input
\* samples, all of them and in order, and changes no field of the detector.
C5_DisabledIsIdentity ==
    [][ (/\ ~vad.is_enabled /\ v_pc = "idle"
         /\ v_resets' = v_resets /\ v_toggles' = v_toggles) =>
            /\ v_out' = v_in'
            /\ Len(v_in') >= 1
            /\ v_pc' = "idle"
            /\ vad' = vad ]_vars

\* A disabled detector, stopped in speech_offset with samples pending, has
\* just passed a call of two or more samples through.
C5_Witness ==
    /\ ~vad.is_enabled
    /\ vad.state = "speech_offset" /\ vad.post_speech_buf_ # <<>>
    /\ v_pc = "idle"
    /\ Len(v_in) >= 2 /\ v_out = v_in
    /\ v_in[Len(v_in)].id = v_next_id + Len(v_in)

C7_PreSpeechBounded ==
    /\ Len(vad.pre_speech_buf_) <= pre_speech_max_samples(vad)
    /\ \A k \in DOMAIN v_last :
          LET e == v_last[k]
          IN  (~IsSpeechFrame(e.frame) /\ e.pre.state \in {"silence", "speech_onset"}) =>
                 vad.pre_speech_buf_ =
                     LastN(e.pre.pre_speech_buf_ \o e.pre.onset_buf_ \o e.frame,
                           pre_speech_max_samples(vad))

\* A false alarm has just merged more samples into a non-empty pre-speech
\* buffer than it may hold.
C7_Witness ==
    /\ v_last # <<>>
    /\ v_last[1].pre.state = "speech_onset"
    /\ vad.state = "silence"
    /\ v_last[1].pre.pre_speech_buf_ # <<>>
    /\ Len(v_last[1].pre.pre_speech_buf_) + Len(v_last[1].pre.onset_buf_)
         + Len(v_last[1].frame) > pre_speech_max_samples(vad)
    /\ Len(vad.pre_speech_buf_) = pre_speech_max_samples(vad)

(***************************************************************************)
(* Claims about the hallucination filter, checked under SpecHF.            *)
(***************************************************************************)
\* The text in lower case without its leading and trailing spaces and
\* newlines: the part from its first to its last other character.
Normalized(text) ==
    LET keep == {k \in DOMAIN text : text[k] \notin {" ", "\n"}}
    IN  IF keep = {} THEN <<>>
        ELSE LET lo == CHOOSE k \in keep : \A j \in keep : k <= j
                 hi == CHOOSE k \in keep : \A j \in keep : k >= j
             IN  [k \in 1..(hi - lo + 1) |-> tolower(text[lo + k - 1])]

Contains(str, pattern) ==
    \E k \in 0..(Len(str) - Len(pattern)) :
       \A j \in 1..Len(pattern) : str[k + j] = pattern[j]

\* C8: is_hallucination(text) is true exactly when the text, in lower case
\* and trimmed (of spaces and newlines, as the code trims), has fewer than 3
\* characters or contains a stock phrase; "Thank you.", "  bye bye  " and ""
\* are rejected and "The weather today is sunny" is accepted.
C8_HallucinationFilter ==
    hf_called =>
        /\ hf_result = (\/ Len(Normalized(hf_text)) < 3
                        \/ \E k \in DOMAIN HALLUCINATION_PATTERNS :
                              Contains(Normalized(hf_text), HALLUCINATION_PATTERNS[k]))
        /\ hf_text = <<"T", "h", "a", "n", "k", " ", "y", "o", "u", ".">> => hf_result = TRUE
        /\ hf_text = <<" ", " ", "b", "y", "e", " ", "b", "y", "e", " ", " ">> => hf_result = TRUE
        /\ hf_text = <<>> => hf_result = TRUE
        /\ hf_text = <<"T", "h", "e", " ", "w", "e", "a", "t", "h", "e", "r", " ", "t", "o", "d", "a", "y", " ", "i", "s", " ", "s", "u", "n", "n", "y">> => hf_result = FALSE

\* The filter has run on each of the four texts the claim names.
C8_Witness ==
    /\ hf_called
    /\ hf_text = <<"T", "h", "a", "n", "k", " ", "y", "o", "u", ".">>
    /\ <<" ", " ", "b", "y", "e", " ", "b", "y", "e", " ", " ">> \in HFTexts /\ <<>> \in HFTexts
    /\ <<"T", "h", "e", " ", "w", "e", "a", "t", "h", "e", "r", " ", "t", "o", "d", "a", "y", " ", "i", "s", " ", "s", "u", "n", "n", "y">> \in HFTexts

(***************************************************************************)
(* Claims about the continuous-mode context, checked under SpecPL.         *)
(***************************************************************************)
HelloWorld == <<"h", "e", "l", "l", "o", " ", "w", "o", "r", "l", "d">>
FooBar     == <<"f", "o", "o", " ", "b", "a", "r">>

\* C9: in one continuous-mode session, once the monitor has committed
\* "hello world" and then "foo bar", the hint handed to the Recognizer on the
\* next flush is a suffix, at most 200 characters long, of
\* "hello world foo bar".
C9_HintIsSuffixOfJoinedCommits ==
    (m_pc = "call" /\ commits = <<HelloWorld, FooBar>>) =>
        /\ m_prompt # <<>>
        /\ Len(m_prompt[1]) <= 200
        /\ IsSuffix(m_prompt[1], HelloWorld \o <<" ">> \o FooBar)

\* C10: every commit leaves the stored context the old context, a space and
\* the committed text, cut to its last 300 characters when that is longer
\* than 500, so never longer than 500; and every hint handed to the Recognizer
\* is at most 200 characters long and a suffix of the stored context.
C10_ContextAndHintBounded ==
    [][ /\ Len(last_context_text_') <= 500
        /\ Len(commits') = Len(commits) + 1 =>
              LET appended == last_context_text_ \o <<" ">> \o commits'[Len(commits')]
              IN  last_context_text_' = IF Len(appended) > 500
                                        THEN LastN(appended, 300)
                                        ELSE appended
        /\ (m_pc' = "call" /\ m_prompt' # <<>>) =>
              /\ Len(m_prompt'[1]) <= 200
              /\ IsSuffix(m_prompt'[1], last_context_text_') ]_vars

\* The third commit of a session has pushed a context of 500 characters past
\* the cap, and the context is what was cut from it.
C10_Witness ==
    /\ Len(commits) = 3
    /\ Len(last_context_text_) = 300
    /\ m_pc = "sleep" /\ recording_

(***************************************************************************)
(* Claims about transcribe_chunked, checked under SpecCH.                  *)
(***************************************************************************)
\* How many segments the chunks before chunk i contributed.
RECURSIVE SegmentsBefore(_, _)
SegmentsBefore(calls, i) ==
    IF i <= 1 THEN 0
    ELSE SegmentsBefore(calls, i - 1) + Len(calls[i - 1].result.segments)

\* C11: for audio longer than MAX_CHUNK_SAMPLES, the Recognizer calls of
\* transcribe_chunked are on consecutive chunks that start at sample 0, end
\* at the last sample and leave no gap or overlap, each of MAX_CHUNK_SAMPLES
\* samples except possibly the last, each with no prompt; and the returned
\* segments are the calls' segments, texts in call order.
C11_ChunksCoverAudioInOrder ==
    k_result # <<>> =>
        /\ k_samples > MAX_CHUNK_SAMPLES
        /\ Len(k_calls) >= 2
        /\ k_calls[1].from = 0
        /\ k_calls[Len(k_calls)].to = k_samples
        /\ \A i \in DOMAIN k_calls :
              /\ k_calls[i].from < k_calls[i].to
              /\ k_calls[i].prompt = <<>>
              /\ i < Len(k_calls) =>
                    /\ k_calls[i].to = k_calls[i + 1].from
                    /\ k_calls[i].to - k_calls[i].from = MAX_CHUNK_SAMPLES
              /\ i = Len(k_calls) =>
                    k_calls[i].to - k_calls[i].from <= MAX_CHUNK_SAMPLES
        /\ Len(k_result[1].segments) = SegmentsBefore(k_calls, Len(k_calls) + 1)
        /\ \A i \in DOMAIN k_calls : \A j \in DOMAIN k_calls[i].result.segments :
              k_result[1].segments[SegmentsBefore(k_calls, i) + j].text
                 = k_calls[i].result.segments[j].text
        /\ full_text(k_result[1])
              = Flatten([i \in DOMAIN k_calls |-> full_text(k_calls[i].result)])

\* Three chunks were transcribed, the last one shorter, and two of them gave
\* segments.
C11_Witness ==
    /\ k_result # <<>>
    /\ Len(k_calls) = 3
    /\ k_calls[3].to - k_calls[3].from < MAX_CHUNK_SAMPLES
    /\ k_calls[1].result.segments # <<>> /\ k_calls[3].result.segments # <<>>
    /\ k_calls[2].result.segments = <<>>

\* Every chunk's outcome kept the proviso.
AllTimesWithinDuration ==
    \A i \in DOMAIN k_calls :
       TimesWithinDuration(k_calls[i].outcome, k_calls[i].to - k_calls[i].from)

\* C12: every aggregated segment's start and end time is the time the
\* Recognizer returned for it plus the chunk's offset / 16 in ms; and when
\* every chunk's times are non-decreasing and within the chunk's duration,
\* the aggregated times are non-decreasing, across chunk boundaries too.
C12_TimesRebasedAndMonotonic ==
    /\ \A i \in DOMAIN k_calls : \A j \in DOMAIN k_calls[i].result.segments :
          LET seg == k_all_segments[SegmentsBefore(k_calls, i) + j]
              rel == k_calls[i].result.segments[j]
          IN  /\ seg.start_time = rel.start_time + k_calls[i].from \div 16
              /\ seg.end_time = rel.end_time + k_calls[i].from \div 16
    /\ AllTimesWithinDuration =>
          \A a \in DOMAIN k_all_segments :
             /\ k_all_segments[a].start_time <= k_all_segments[a].end_time
             /\ \A b \in DOMAIN k_all_segments :
                   a < b => k_all_segments[a].end_time <= k_all_segments[b].start_time

\* Three chunks kept the proviso, the first ending a segment at the chunk's
\* end and the second starting one at its beginning.
C12_Witness ==
    /\ k_result # <<>>
    /\ Len(k_calls) = 3
    /\ AllTimesWithinDuration
    /\ Len(k_all_segments) >= 4
    /\ \E a \in DOMAIN k_all_segments :
          /\ a < Len(k_all_segments)
          /\ k_all_segments[a].end_time = 30000
          /\ k_all_segments[a + 1].start_time = 30000

(***************************************************************************)
(* Claims about the stop call, checked under SpecPL.                       *)
(***************************************************************************)
\* A step in which the monitor's Recognizer call begins.
MonitorInvokes == m_pc = "drain" /\ m_pc' = "call"

\* A step in which a Recognizer call of the stop call begins: the first one,
\* or the one on the next chunk.
StopInvokes ==
    /\ s_pc' = "call"
    /\ s_pc = "join" \/ (s_pc = "call" /\ s_offset' # s_offset)

\* The number of chunks of at most MAX_CHUNK_SAMPLES samples that n samples
\* make.
ChunksOf(n) == (n + MAX_CHUNK_SAMPLES - 1) \div MAX_CHUNK_SAMPLES

C14_ShortSessionReturnsEmpty ==
    [][ (s_pc = "join" /\ s_pc' # "join" /\ s_log'.samples < MIN_SAMPLES)
           => /\ s_pc' = "idle"
              /\ s_log'.returned = "empty"
              /\ s_log'.calls = 0 /\ s_log'.outputs = 0
              /\ s_log'.starts = 0 /\ s_log'.ends = 0
              /\ ~StopInvokes
              /\ recording_' = FALSE
              /\ UNCHANGED <<transcribing_, did_output_, out_last>> ]_vars

\* A session of some but fewer than MIN_SAMPLES samples was stopped with a
\* model loaded.
C14_Witness ==
    /\ s_pc = "idle" /\ s_log.returned = "empty" /\ ctx_
    /\ s_log.samples > 0 /\ s_log.samples < MIN_SAMPLES
    /\ ~recording_

\* C16: with no recognizer loaded a stop call returns an empty result in the
\* step that drains: no Recognizer call, no output, no transcription event;
\* nothing invokes the Recognizer and transcribing_ is never set.
C16_NoRecognizerReturnsEmpty ==
    [][ /\ (s_pc = "join" /\ s_pc' # "join" /\ ~ctx_)
              => /\ s_pc' = "idle"
                 /\ s_log'.returned = "empty"
                 /\ s_log'.calls = 0 /\ s_log'.outputs = 0
                 /\ s_log'.starts = 0 /\ s_log'.ends = 0
                 /\ UNCHANGED <<did_output_, out_last>>
        /\ ~ctx_ => /\ ~StopInvokes /\ ~MonitorInvokes
                    /\ ~transcribing_ /\ ~transcribing_' ]_vars

\* A session of at least MIN_SAMPLES samples was stopped with no model.
C16_Witness ==
    /\ s_pc = "idle" /\ s_log.returned = "empty" /\ ~ctx_
    /\ s_log.samples >= MIN_SAMPLES

\* C15: a failed Recognizer call returns a result with no segments and the
\* duration samples/16 ms, and ends nothing.  The monitor outputs nothing
\* after it, leaves the context as it was and sleeps as after any other
\* flush, going on until continuous_running_ is cleared; in a chunked stop
\* call the segments so far are kept, the call on the next chunk begins, and
\* the text of the segments kept is output after the last chunk.
C15_FailureDoesNotAbort ==
    [][ /\ (m_pc = "call" /\ m_failed' # <<>>)
              => /\ m_failed'[1].segments = <<>>
                 /\ m_failed'[1].audio_duration_ms = [num |-> m_resampled, den |-> 16]
                 /\ m_pc' = "sleep"
                 /\ UNCHANGED <<last_context_text_, commits, out_last,
                                did_output_, continuous_running_, recording_>>
        /\ (m_failed # <<>> /\ m_pc' # m_pc)
              => m_pc' = "drain" \/ (m_pc' = "exited" /\ ~continuous_running_)
        /\ (s_pc = "call" /\ s_pc' = "call" /\ s_offset' # s_offset
              /\ s_log'.failed # <<>>)
              => /\ s_log'.failed[1].segments = <<>>
                 /\ s_log'.failed[1].audio_duration_ms =
                       [num |-> s_offset' - s_offset, den |-> 16]
                 /\ s_all_segments' = s_all_segments
                 /\ s_offset' = chunk_end(s_offset, s_samples)
                 /\ StopInvokes
        /\ (s_pc = "call" /\ s_pc' = "idle" /\ s_log'.failed # <<>>)
              => /\ s_log'.failed[1].segments = <<>>
                 /\ s_log'.failed[1].audio_duration_ms =
                       [num |-> s_samples - s_offset, den |-> 16]
                 /\ s_log'.returned = "result"
                 /\ s_log'.outputs =
                       IF trim(full_text([segments |-> s_all_segments])) # <<>>
                       THEN 1 ELSE 0 ]_vars

\* The monitor's Recognizer call failed after an earlier flush had committed
\* a text; the session records on and the monitor sleeps until its next
\* wake-up.
C15_Witness ==
    /\ m_failed # <<>> /\ m_pc = "sleep"
    /\ recording_ /\ continuous_running_ /\ collecting_
    /\ commits # <<>>

\* C19: within a session every output comes from audio drained later than
\* the audio of the output before it, and the stop call's output is the last:
\* no output follows it, and the monitor thread has ended when it is made.
C19_OutputsInCaptureOrder ==
    [][ out_last'.n = out_last.n + 1
           => /\ out_last'.label > out_last.label
              /\ out_last.by # "stop"
              /\ out_last'.by = "stop" => m_pc' = "none" ]_vars

\* The monitor has committed and output two texts and the stop call has
\* output the remainder after them.
C19_Witness ==
    /\ out_last.by = "stop" /\ out_last.n = 3
    /\ Len(commits) = 2
    /\ s_log.returned = "result" /\ ~s_log.buffered

(***************************************************************************)
(* Claim about the Recognizer's serialisation, checked under SpecWC.       *)
(***************************************************************************)
\* C17: at most one thread is in an inference call (past the lock_guard of
\* transcribe, inside whisper_full) at any time.
C17_AtMostOneInferenceInFlight ==
    Cardinality({t \in WCThreads : w_pc[t] = "infer"}) <= 1

(***************************************************************************)
(* Claim about the detector's users, checked under SpecAE.                 *)
(***************************************************************************)
\* C18: while the capture thread is inside vad_.process, no other thread is
\* reading is_speaking or inside vad_.reset().
C18_DetectorUsedByCaptureThreadOnly ==
    cap_pc = "process"
       => mon_pc # "reading" /\ e_pc \notin {"start_reset", "stop_reset"}

(***************************************************************************)
(* Claims about resample, checked under SpecRS.                            *)
(***************************************************************************)
\* resample was called with different rates on a non-empty input.
Resampled == rs_called /\ rs_from # rs_to /\ rs_input # <<>>

IsConstant(input) == \A i \in DOMAIN input : input[i] = input[1]

\* floor(len / (from / to)) in exact arithmetic.
ExactOutCount == (Len(rs_input) * rs_to) \div rs_from

\* a is within three roundings of a float of b.
WithinRounding(a, b) ==
    LET diff == a.num * b.den - b.num * a.den
    IN  (IF diff >= 0 THEN diff ELSE -diff) * Pow2(FloatBits) <= 4 * b.num * a.den

DistinctIds(s) == \A i, j \in DOMAIN s : s[i].id = s[j].id => i = j

\* C21: in speech_onset a frame with rms >= speech_threshold is appended to
\* the onset buffer; if the buffer then holds min_speech_samples or more, the
\* pre-speech buffer and then the onset buffer are emitted, each sample once,
\* both are emptied, the state is speaking and is_speaking is true; otherwise
\* nothing is emitted and the state stays speech_onset.  A frame that arrives
\* in silence never confirms speech.
C21_OnsetConfirmation ==
    \A k \in DOMAIN v_last :
       LET e   == v_last[k]
           acc == e.pre.onset_buf_ \o e.frame
       IN  /\ (e.pre.state = "speech_onset" /\ IsSpeechFrame(e.frame)) =>
                 IF Len(acc) >= min_speech_samples(e.post)
                 THEN /\ e.emitted = e.pre.pre_speech_buf_ \o acc
                      /\ DistinctIds(e.emitted)
                      /\ e.post.pre_speech_buf_ = <<>>
                      /\ e.post.onset_buf_ = <<>>
                      /\ e.post.state = "speaking"
                      /\ e.post.is_speaking
                 ELSE /\ e.emitted = <<>>
                      /\ e.post.onset_buf_ = acc
                      /\ e.post.pre_speech_buf_ = e.pre.pre_speech_buf_
                      /\ e.post.state = "speech_onset"
                      /\ ~e.post.is_speaking
           /\ e.pre.state = "silence" =>
                 /\ e.emitted = <<>>
                 /\ ~e.post.is_speaking
                 /\ e.post.state = IF IsSpeechFrame(e.frame) THEN "speech_onset"
                                   ELSE "silence"
                 /\ IsSpeechFrame(e.frame) => e.post.onset_buf_ = e.frame

\* Speech has just been confirmed with a non-empty pre-speech buffer, by
\* the third frame of an onset whose second frame did not confirm it.
C21_Witness ==
    /\ v_last # <<>>
    /\ v_last[1].pre.state = "speech_onset"
    /\ vad.state = "speaking" /\ vad.is_speaking
    /\ v_last[1].pre.pre_speech_buf_ # <<>>
    /\ Len(v_last[1].pre.onset_buf_) = min_speech_samples(vad) - 1
    /\ Len(v_last[1].emitted) = Len(v_last[1].pre.pre_speech_buf_)
                                 + Len(v_last[1].pre.onset_buf_)
                                 + Len(v_last[1].frame)

\* C22: in speech_onset a frame with rms < speech_threshold emits nothing;
\* the pre-speech buffer becomes the newest pre_speech_max_samples samples of
\* itself, the onset buffer and the frame, in that order; the onset buffer
\* and its counter are cleared, the state is silence and is_speaking false.
C22_FalseAlarm ==
    \A k \in DOMAIN v_last :
       LET e == v_last[k]
       IN  (e.pre.state = "speech_onset" /\ ~IsSpeechFrame(e.frame)) =>
              /\ e.emitted = <<>>
              /\ e.post.pre_speech_buf_ =
                    LastN(e.pre.pre_speech_buf_ \o e.pre.onset_buf_ \o e.frame,
                          pre_speech_max_samples(e.post))
              /\ e.post.onset_buf_ = <<>>
              /\ e.post.speech_sample_count_ = 0
              /\ e.post.state = "silence"
              /\ ~e.post.is_speaking

\* A false alarm of one sample has just left the last onset sample and the
\* frame in the pre-speech buffer.
C22_Witness ==
    /\ v_last # <<>>
    /\ v_last[1].pre.state = "speech_onset"
    /\ Len(v_last[1].frame) = 1 /\ ~IsSpeechFrame(v_last[1].frame)
    /\ vad.state = "silence"
    /\ Len(v_last[1].pre.onset_buf_) >= 2
    /\ vad.pre_speech_buf_ =
          <<v_last[1].pre.onset_buf_[Len(v_last[1].pre.onset_buf_)]>>
             \o v_last[1].frame

\* C23: in speech_offset a frame with rms < silence_threshold that brings
\* the post-speech buffer to min_silence_samples or more emits the first
\* min(post_speech_max_samples, buffer length) samples of the buffer and no
\* more, clears the post-speech and pre-speech buffers, and leaves the state
\* silence with is_speaking false.
C23_EndOfSpeech ==
    \A k \in DOMAIN v_last :
       LET e   == v_last[k]
           acc == e.pre.post_speech_buf_ \o e.frame
       IN  (/\ e.pre.state = "speech_offset" /\ IsSilentFrame(e.frame)
            /\ Len(acc) >= min_silence_samples(e.post)) =>
              /\ e.emitted = SubSeq(acc, 1, Min(post_speech_max_samples(e.post),
                                                 Len(acc)))
              /\ e.post.post_speech_buf_ = <<>>
              /\ e.post.pre_speech_buf_ = <<>>
              /\ e.post.silence_sample_count_ = 0
              /\ e.post.state = "silence"
              /\ ~e.post.is_speaking

\* The end of speech has just been confirmed and part of the post-speech
\* buffer was dropped.
C23_Witness ==
    /\ v_last # <<>>
    /\ v_last[1].pre.state = "speech_offset" /\ v_last[1].pre.is_speaking
    /\ vad.state = "silence" /\ ~vad.is_speaking
    /\ Len(v_last[1].emitted) = post_speech_max_samples(vad)
    /\ Len(v_last[1].pre.post_speech_buf_) + Len(v_last[1].frame)
          > post_speech_max_samples(vad)

\* C24: in speech_offset a frame with rms >= silence_threshold emits the
\* whole post-speech buffer and then the frame, clears the buffer and its
\* counter and returns to speaking; the buffer emitted is shorter than
\* min_silence_samples and is not cut to post_speech_max_samples.
C24_SpeechResumed ==
    \A k \in DOMAIN v_last :
       LET e == v_last[k]
       IN  (e.pre.state = "speech_offset" /\ ~IsSilentFrame(e.frame)) =>
              /\ e.emitted = e.pre.post_speech_buf_ \o e.frame
              /\ Len(e.pre.post_speech_buf_) < min_silence_samples(e.post)
              /\ e.post.post_speech_buf_ = <<>>
              /\ e.post.silence_sample_count_ = 0
              /\ e.post.state = "speaking"
              /\ e.post.is_speaking

\* Speech has just resumed after a silence one sample short of
\* min_silence_samples and longer than post_speech_max_samples, all of it
\* emitted.
C24_Witness ==
    /\ v_last # <<>>
    /\ v_last[1].pre.state = "speech_offset"
    /\ vad.state = "speaking"
    /\ Len(v_last[1].pre.post_speech_buf_) = min_silence_samples(vad) - 1
    /\ Len(v_last[1].pre.post_speech_buf_) > post_speech_max_samples(vad)
    /\ Len(v_last[1].emitted) = Len(v_last[1].pre.post_speech_buf_)
                                 + Len(v_last[1].frame)
\* The samples the detector holds, oldest first.
Buffered(v) == v.pre_speech_buf_ \o v.onset_buf_ \o v.post_speech_buf_

Samples(s) == {s[k] : k \in DOMAIN s}

IdsIncrease(s) == \A i, j \in DOMAIN s : i < j => s[i].id < s[j].id

\* C25: over a session (since reset()) what process_frame emits is a
\* subsequence of what it was fed.  Frame by frame: the samples emitted are
\* samples of the frame or of the buffers, in the order of their positions
\* in the input and all later than the newest sample emitted before; the
\* samples kept are samples of the frame or of the buffers, in input order
\* and all later than every sample emitted.
C25_OutputIsSubsequenceOfInput ==
    [][ (v_pc = "loop" /\ v_offset' > v_offset) =>
          LET e == v_last'[1]
          IN  /\ IdsIncrease(e.emitted)
              /\ e.emitted # <<>> => e.emitted[1].id > g.emitted_to
              /\ Samples(e.emitted) \subseteq
                    Samples(Buffered(e.pre)) \cup Samples(e.frame)
              /\ Samples(Buffered(e.post)) \subseteq
                    Samples(Buffered(e.pre)) \cup Samples(e.frame)
              /\ IdsIncrease(Buffered(e.post))
              /\ \A x \in Samples(Buffered(e.post)) : x.id > g'.emitted_to
              /\ e.post = vad'
              /\ g'.emitted_to = IF e.emitted = <<>> THEN g.emitted_to
                                  ELSE e.emitted[Len(e.emitted)].id ]_vars

\* A session went through speech, a gap that was cut, and speech again,
\* whose confirmation has just emitted the input up to its newest sample.
C25_Witness ==
    /\ g.phase = "again" /\ vad.state = "speaking"
    /\ v_last # <<>> /\ v_last[1].pre.state = "speech_onset"
    /\ g.n_out < g.n_in
    /\ g.emitted_to = v_next_id
    /\ v_last[1].emitted[1].id > g.gap_first
\* C26: reset() leaves the state silence, is_speaking false, the three
\* buffers empty and both counters zero, whatever the detector was in; a
\* second reset() changes nothing more; the thresholds, the durations and
\* is_enabled are as they were.
C26_ResetClearsSessionOnly ==
    [][ v_resets' = v_resets + 1 =>
          /\ vad'.state = "silence" /\ ~vad'.is_speaking
          /\ vad'.pre_speech_buf_ = <<>> /\ vad'.onset_buf_ = <<>>
          /\ vad'.post_speech_buf_ = <<>>
          /\ vad'.speech_sample_count_ = 0 /\ vad'.silence_sample_count_ = 0
          /\ reset(vad') = vad'
          /\ vad'.speech_threshold = vad.speech_threshold
          /\ vad'.silence_threshold = vad.silence_threshold
          /\ vad'.min_speech_duration_ms = vad.min_speech_duration_ms
          /\ vad'.min_silence_duration_ms = vad.min_silence_duration_ms
          /\ vad'.pre_speech_padding_ms = vad.pre_speech_padding_ms
          /\ vad'.post_speech_padding_ms = vad.post_speech_padding_ms
          /\ vad'.is_enabled = vad.is_enabled ]_vars

\* reset() has just been called on a disabled detector that was stopped in
\* speech_offset.
C26_Witness ==
    /\ v_resets = 1 /\ g.reset_from = "speech_offset"
    /\ ~vad.is_enabled
    /\ vad.state = "silence" /\ ~vad.is_speaking
    /\ Buffered(vad) = <<>>
(***************************************************************************)
(* Claims about the pipeline's sessions and the monitor's flushes, checked *)
(* under SpecPL.                                                           *)
(***************************************************************************)
\* C27: the step that begins a session (start_recording with recording_
\* false) resets the detector, empties the raw buffer, clears the context
\* and did_output_, sets collecting_ and recording_ and, in continuous mode,
\* starts the monitor with silence_frame_count_ 0; in buffered mode no
\* monitor is started.  While recording_ stays set (a start_recording call
\* included) the detector is written by capture alone, the buffer is emptied
\* by the monitor's drain alone, the context and did_output_ are not
\* cleared and no monitor thread is started.
C27_StartRecording ==
    [][ /\ (~recording_ /\ recording_') =>
              /\ is_speaking' = FALSE /\ raw_count' = 0
              /\ last_context_text_' = <<>> /\ did_output_' = FALSE
              /\ collecting_' = TRUE
              /\ IF transcription_mode = "continuous"
                 THEN /\ m_pc = "none" /\ m_pc' = "sleep"
                      /\ silence_frame_count_' = 0
                      /\ continuous_running_' = TRUE
                 ELSE UNCHANGED <<m_pc, continuous_running_>>
        /\ (recording_ /\ recording_') =>
              /\ is_speaking' # is_speaking => n_bursts' = n_bursts + 1
              /\ raw_count' < raw_count => m_pc = "drain"
              /\ last_context_text_ # <<>> => last_context_text_' # <<>>
              /\ did_output_ => did_output_'
              /\ collecting_'
              /\ m_pc \in {"none", "exited"} => m_pc' = m_pc
              /\ ~continuous_running_ => ~continuous_running_' ]_vars

\* A continuous session has just begun after one in which the monitor
\* called the Recognizer: the monitor is asleep with its counter at 0, the
\* buffer and the context are empty and did_output_ is clear.
C27_Witness ==
    /\ recording_ /\ collecting_ /\ continuous_running_
    /\ m_pc = "sleep" /\ silence_frame_count_ = 0
    /\ raw_count = 0 /\ n_bursts = 0 /\ ~is_speaking
    /\ last_context_text_ = <<>> /\ commits = <<>> /\ ~did_output_
    /\ n_flushes >= 1 /\ out_last = NoOutput
    /\ s_pc = "idle" /\ ~transcribing_
\* The monitor's wake-up: the one step taken from the sleep that moves the
\* monitor or its counter.
MonitorWakes ==
    /\ m_pc = "sleep" /\ continuous_running_
    /\ (m_pc' # m_pc \/ silence_frame_count_' # silence_frame_count_)

\* C28: a wake-up counts the consecutive wake-ups at which is_speaking was
\* false and decides to drain exactly when (the buffer is non-empty and the
\* count is 3 or more, or the buffer holds more than 25 s at the hardware
\* rate) and transcribing_ is clear and the buffer holds at least
\* CONTINUOUS_MIN_SAMPLES scaled to the hardware rate.  At any other wake-up
\* the buffer, the context and the outputs are unchanged and no Recognizer
\* call is made; the monitor drains and calls only after such a decision.
C28_FlushDecision ==
    [][ /\ MonitorWakes =>
              LET pause == raw_count > 0 /\ silence_frame_count_' >= 3
                  full  == raw_count > 25 * hardware_sr_
                  enough == raw_count >=
                              (CONTINUOUS_MIN_SAMPLES * hardware_sr_) \div 16000
              IN  /\ silence_frame_count_' =
                        IF is_speaking THEN 0 ELSE silence_frame_count_ + 1
                  /\ m_pc' = "drain" <=>
                        ((pause \/ full) /\ ~transcribing_ /\ enough)
                  /\ m_pc' # "drain" => m_pc' = "sleep"
                  /\ UNCHANGED <<raw_count, last_context_text_, commits,
                                 out_last, did_output_, n_flushes, transcribing_>>
        /\ (m_pc' = "call" /\ m_pc # "call") =>
              (m_pc = "drain" /\ n_flushes' = n_flushes + 1 /\ raw_count' = 0)
        /\ m_pc = "drain" => (m_pc' # "drain" => raw_count' = 0)
        /\ n_flushes' # n_flushes => m_pc = "drain" ]_vars

\* The monitor has decided to drain a buffer of more than 25 s while
\* is_speaking was set, with no pause counted.
C28_Witness ==
    /\ m_pc = "drain" /\ is_speaking /\ silence_frame_count_ = 0
    /\ raw_count > 25 * hardware_sr_ /\ ~transcribing_
    /\ continuous_running_ /\ recording_

\* The monitor's Recognizer call returns: the one step taken from the call.
MonitorReturns == m_pc = "call" /\ m_pc' = "sleep"

\* C29: when the monitor's Recognizer call returns, a text that is empty after
\* trimming or that is_hallucination() rejects changes nothing: no output, no
\* change of the context, no record in the performance statistics; any other
\* text is appended to the context (a space, the text, then the cut to the
\* last 300 characters above 500), output once and recorded once.
C29_FlushDiscardsOrCommits ==
    [][MonitorReturns =>
          LET text     == m_text'[1]
              rejected == \E r \in RecognizerReturns :
                             r.text = text /\ r.is_hallucination
          IN  IF text = <<>> \/ rejected
              THEN UNCHANGED <<last_context_text_, commits, out_last, did_output_>>
              ELSE /\ last_context_text_' = append_context(last_context_text_, text)
                   /\ commits' = Append(commits, text)
                   /\ out_last'.n = out_last.n + 1
                   /\ out_last'.by = "monitor"
                   /\ out_last'.recorded = out_last.recorded + 1
                   /\ did_output_']_vars

\* The monitor's latest call returned a text the filter rejects, after a
\* flush of this session whose text was accepted, output and recorded; and
\* nothing else has been output or recorded.
C29_Witness ==
    /\ m_text # <<>> /\ m_text[1] # <<>> /\ is_hallucination(m_text[1])
    /\ m_pc = "sleep" /\ n_flushes = 2
    /\ Len(commits) = 1 /\ ~is_hallucination(commits[1])
    /\ out_last.n = 1 /\ out_last.by = "monitor" /\ out_last.label = 1
    /\ out_last.recorded = 1
    /\ last_context_text_ = append_context(<<>>, commits[1])

\* transcribe_and_output has returned from its only or last Recognizer call
\* and has output a text, in a stop call that no later session has overtaken.
StopOutputs ==
    /\ s_pc = "call" /\ s_pc' = "idle"
    /\ ~s_log.stale /\ s_log'.outputs = s_log.outputs + 1

\* The text that stop call output: transcribe_and_output lines 191-193.
StopOutputText ==
    LET segments == IF needs_chunking(s_samples)
                    THEN s_all_segments
                            \o chunk_segments([segments |-> s_log'.last_segments],
                                              s_offset)
                    ELSE s_log'.last_segments
    IN  trim(full_text([segments |-> segments]))

\* C30: in a session with the monitor, every text that is output is one
\* is_hallucination() accepts: the text of each flush of the monitor, and the
\* text stop_recording_and_transcribe makes of the audio left in the buffer.
C30_EveryOutputPassedFilter ==
    [][/\ (MonitorReturns /\ out_last'.n = out_last.n + 1)
              => \E r \in RecognizerReturns :
                    r.text = commits'[Len(commits')] /\ ~r.is_hallucination
       /\ (StopOutputs /\ ~s_log.buffered)
              => ~is_hallucination(StopOutputText)]_vars

(***************************************************************************)
(* Claims about the detector over a whole utterance, checked under SpecVAD. *)
(***************************************************************************)
Contiguous(s) == \A i \in 1..(Len(s) - 1) : s[i + 1].id = s[i].id + 1

\* C39: once speech is confirmed no speech is lost.  Frame by frame: the
\* onset buffer holds the whole run of loud frames since silence; the
\* confirming frame emits that run and itself, contiguous and in order, at the
\* end of what it emits; from then on every frame is emitted or held in the
\* post-speech buffer, which holds the current run of silent frames only and
\* is emitted whole when speech resumes; what the end of speech emits is the
\* front of that run; and a frame that arrives in speaking with
\* rms >= silence_threshold is emitted by the call that received it.
C39_NoSpeechLost ==
    v_last # <<>> =>
       LET e    == v_last[1]
           run  == e.pre.onset_buf_ \o e.frame
           tail == e.pre.post_speech_buf_ \o e.frame
       IN  /\ (e.pre.state = "silence" /\ e.post.state = "speech_onset")
                 => e.post.onset_buf_ = e.frame /\ e.emitted = <<>>
           /\ (e.pre.state = "speech_onset" /\ e.post.state = "speech_onset")
                 => e.post.onset_buf_ = run /\ e.emitted = <<>>
           /\ (e.pre.state = "speech_onset" /\ e.post.state = "speaking")
                 => /\ Contiguous(run)
                    /\ Len(e.emitted) >= Len(run)
                    /\ SubSeq(e.emitted, Len(e.emitted) - Len(run) + 1,
                              Len(e.emitted)) = run
                    /\ e.post.post_speech_buf_ = <<>>
           /\ e.pre.state \in {"speaking", "speech_offset"}
                 => /\ Contiguous(tail)
                    /\ e.post.state \in {"speaking", "speech_offset", "silence"}
                    /\ e.post.state = "speaking"
                          => e.emitted = tail /\ e.post.post_speech_buf_ = <<>>
                    /\ e.post.state = "speech_offset"
                          => /\ e.emitted = <<>>
                             /\ e.post.post_speech_buf_ = tail
                             /\ ~RmsAtLeast(e.frame, e.pre.silence_threshold)
                    /\ e.post.state = "silence"
                          => /\ e.emitted = SubSeq(tail, 1, Len(e.emitted))
                             /\ ~RmsAtLeast(e.frame, e.pre.silence_threshold)
                             /\ Len(tail) >= min_silence_samples(e.post)
           /\ (e.pre.state = "speaking"
                  /\ RmsAtLeast(e.frame, e.pre.silence_threshold))
                 => e.emitted = e.frame /\ e.pre.post_speech_buf_ = <<>>

\* A session of confirmed speech and then silence only has just reached the
\* end of speech: all that was fed before the silent run has been emitted,
\* and of the run the post-speech padding.
C39_Witness ==
    /\ v_last # <<>>
    /\ v_last[1].pre.state = "speech_offset" /\ vad.state = "silence"
    /\ g.phase = "gap"
    /\ Len(v_last[1].emitted) = post_speech_max_samples(vad)
    /\ g.n_out = g.n_in - (g.gap_last - g.gap_first + 1)
                        + post_speech_max_samples(vad)
    /\ g.n_out > min_speech_samples(vad) + post_speech_max_samples(vad)

\* C40: in an enabled detector is_speaking is true exactly in the states
\* speaking and speech_offset, the onset buffer is empty outside
\* speech_onset and the post-speech buffer is empty outside speech_offset.
C40_FlagAndBuffersFollowState ==
    vad.is_enabled =>
       /\ vad.is_speaking <=> vad.state \in {"speaking", "speech_offset"}
       /\ vad.onset_buf_ # <<>> => vad.state = "speech_onset"
       /\ vad.post_speech_buf_ # <<>> => vad.state = "speech_offset"

\* Speech was emitted earlier in this session and has ended; a new onset is
\* being collected, with is_speaking false again.
C40_Witness ==
    /\ vad.is_enabled /\ v_pc = "loop"
    /\ vad.state = "speech_onset" /\ vad.onset_buf_ # <<>>
    /\ ~vad.is_speaking /\ vad.post_speech_buf_ = <<>>
    /\ g.emitted_to > 0

(***************************************************************************)
(* Claims about what the pipeline hands to the Recognizer, checked under   *)
(* SpecPL.                                                                 *)
(***************************************************************************)
\* C31: every Recognizer call of the pipeline is handed MAX_CHUNK_SAMPLES
\* samples or fewer: the monitor's call on what it drained and resampled, and
\* each call of transcribe_and_output, on the whole audio or on one chunk.
C31_EveryCallWithinChunkCap ==
    /\ m_pc = "call" => m_resampled <= MAX_CHUNK_SAMPLES
    /\ s_pc = "call" =>
          chunk_end(s_offset, s_samples) - s_offset <= MAX_CHUNK_SAMPLES

\* The monitor's drain and the stop call's drain: the steps that empty the
\* raw buffer into a local.
MonitorDrains == m_pc = "drain" /\ m_pc' # "drain"
StopDrains    == s_pc = "join" /\ s_pc' # "join"

\* C32 as stated: all the audio a drain takes from the raw buffer goes,
\* resampled, into a Recognizer call, unless it is the audio of a session
\* without monitor that is shorter than MIN_SAMPLES.
C32_EveryDrainedSampleTranscribed ==
    [][/\ (MonitorDrains /\ raw_count > 0)
             => m_pc' = "call" /\ m_resampled' = resample(raw_count)
       /\ (StopDrains /\ raw_count > 0)
             => \/ s_pc' = "call" /\ s_samples' = resample(raw_count)
                \/ s_log'.buffered /\ too_short(resample(raw_count))]_vars

\* C32: a drain takes all the raw buffer holds.  With a Recognizer loaded
\* the monitor hands all of it, resampled, to one Recognizer call, and the
\* stop call hands all of it to transcribe_and_output, whose calls go through
\* it chunk by chunk to its end, unless it is shorter than MIN_SAMPLES (in
\* either mode).  With no Recognizer loaded the drained audio is discarded:
\* the monitor goes back to sleep and the stop call returns an empty result,
\* and no Recognizer call is begun.
C32_DrainedAudioTranscribedOrDiscarded ==
    [][/\ MonitorDrains
             => /\ raw_count' = 0
                /\ IF ctx_
                   THEN /\ m_pc' = "call" /\ transcribing_'
                        /\ m_resampled' = resample(raw_count)
                        /\ n_flushes' = n_flushes + 1
                   ELSE /\ m_pc' = "sleep"
                        /\ UNCHANGED <<transcribing_, n_flushes, m_resampled>>
       /\ StopDrains
             => /\ raw_count' = 0
                /\ IF ctx_ /\ resample(raw_count) >= MIN_SAMPLES
                   THEN /\ s_pc' = "call" /\ transcribing_'
                        /\ s_samples' = resample(raw_count)
                        /\ s_offset' = 0
                   ELSE /\ s_pc' = "idle" /\ s_log'.returned = "empty"
                        /\ s_log'.calls = 0
                        /\ UNCHANGED <<transcribing_, s_samples>>
       /\ (s_pc = "call" /\ s_offset' # s_offset /\ s_pc' = "call")
             => s_offset' = chunk_end(s_offset, s_samples)
       /\ (s_pc = "call" /\ s_pc' = "idle")
             => chunk_end(s_offset, s_samples) = s_samples]_vars

\* With no Recognizer loaded the monitor has drained more than 25 s of
\* speech and has gone back to sleep without a Recognizer call.
C32_Witness ==
    /\ ~ctx_ /\ recording_ /\ continuous_running_
    /\ m_pc = "sleep" /\ is_speaking /\ raw_count = 0
    /\ n_flushes = 0 /\ ~transcribing_ /\ s_pc = "idle"

(***************************************************************************)
(* The audio engine's threads under fair scheduling: a thread that can     *)
(* take a step takes one.  The capture thread's blocking read returns and  *)
(* the monitor's Recognizer call returns; a read need not fail.            *)
(***************************************************************************)
CaptureStep ==
    (CaptureFrame \/ CaptureProcess \/ CaptureAppend) /\ UNCHANGED exceptAE

MonitorStep ==
    (MonitorReadBegin \/ MonitorReadEnd \/ MonitorFlushEnd)
       /\ UNCHANGED exceptAE

JoinStep == (EngineStop \/ EngineReleaseJoin) /\ UNCHANGED exceptAE

SpecAEFair ==
    SpecAE /\ WF_vars(CaptureStep) /\ WF_vars(MonitorStep) /\ WF_vars(JoinStep)

(***************************************************************************)
(* Claims about the capture thread and the threads that stop it, checked   *)
(* under SpecAE and SpecAEFair.                                            *)
(***************************************************************************)
\* C33: after stop_recording has returned and until the next start_recording
\* is called, the ring buffer is empty, whatever the capture thread was doing
\* when stop cleared the collecting flag.
C33_BufferEmptyAfterStop ==
    e_pc \in {"idle", "release"} => raw_count = 0

\* C34: every frame the capture thread reads sets the level gauge to a value
\* in [0, 1], the frame's rms when that is in [0, 1]; the gauge changes at no
\* other step.  A frame read while collecting_ is clear goes no further and
\* leaves the detector and the ring buffer alone; a frame read while it is set
\* goes into vad_.process, and the ring buffer grows only by a non-empty
\* result of it.
C34_EveryFrameSetsLevel ==
    [][/\ cap_reads' # cap_reads
            => /\ audio_level_' \in 0 .. 1000
               /\ cap_rms' \in 0 .. 1000 => audio_level_' = cap_rms'
               /\ IF collecting_
                  THEN cap_pc' = "process"
                  ELSE /\ cap_pc' = "read"
                       /\ UNCHANGED <<raw_count, is_speaking, cap_filtered>>
       /\ audio_level_' # audio_level_ => cap_reads' = cap_reads + 1
       /\ cap_pc = "process" /\ cap_pc' # "process"
            => /\ cap_pc' = IF cap_filtered' = 0 THEN "read" ELSE "append"
               /\ UNCHANGED raw_count
       /\ raw_count' > raw_count
            => /\ cap_pc = "append"
               /\ cap_filtered > 0
               /\ raw_count' = raw_count + cap_filtered]_vars

\* The stream stays open between sessions and a frame louder than full scale
\* was read while collecting_ was clear.
C34_Witness ==
    /\ e_pc = "idle" /\ ~collecting_ /\ cap_pc = "read"
    /\ cap_reads > 0 /\ cap_rms = 1500 /\ audio_level_ = 1000

\* C35: once a read has failed the capture thread is gone for as long as the
\* stream handle stays set: it reads no frame, stores no level and appends
\* nothing, start_recording leaves the handle and the thread as they are, and
\* only release() ends this; a session started in between finds the buffer
\* empty when it stops.
C35_FailedReadEndsCapture ==
    /\ [](cap_hist.failed
            => /\ cap_pc = "off"
               /\ pa_
               /\ cap_hist.started => raw_count = 0)
    /\ [][cap_hist.failed
            => /\ UNCHANGED <<cap_reads, audio_level_>>
               /\ raw_count' <= raw_count
               /\ ~cap_hist'.failed
                    => e_pc = "release" /\ e_pc' = "idle" /\ ~pa_']_vars

\* A read failed, and a session started after it has been stopped and drained
\* with the stream handle still set.
C35_Witness ==
    /\ cap_hist.failed /\ cap_hist.started
    /\ e_pc = "stop_reset"
    /\ pa_ /\ running_ /\ keep_mic_warm

\* C36: with the running flag clear, the next thing a sleeping monitor does is
\* leave its loop; stop_continuous_monitor's join returns; between that and
\* the next start the monitor does nothing.  release()'s join of the capture
\* thread returns as well, and the capture thread stays gone until the next
\* prepare().
C36_FlagThenJoin ==
    /\ (e_pc = "stop_join") ~> (e_pc = "stop_drain")
    /\ (e_pc = "release") ~> (e_pc = "idle" /\ cap_pc = "off")
    /\ [][/\ ~continuous_running_ /\ mon_pc = "sleep"
               => mon_pc' \in {"sleep", "exited"}
          /\ mon_pc = "exited" => mon_pc' \in {"exited", "none"}
          /\ mon_pc = "none" /\ mon_pc' # "none"
               => e_pc = "start_drain" /\ mon_pc' = "sleep"
          /\ e_pc = "stop_join" /\ e_pc' # "stop_join"
               => mon_pc \in {"none", "exited"} /\ mon_pc' = "none"
          /\ e_pc = "release" /\ e_pc' # "release" => cap_pc = "off"
          /\ cap_pc = "off" /\ cap_pc' # "off" => e_pc = "idle"]_vars

\* The running flag is clear and the stopping thread waits in join while the
\* monitor is inside a flush it began before.
C36_Witness ==
    e_pc = "stop_join" /\ ~continuous_running_ /\ mon_pc = "call"

(***************************************************************************)
(* Claims about the threads that start and stop sessions, checked under    *)
(* SpecHK.                                                                 *)
(***************************************************************************)
\* C37: a transcription_started event is followed by its
\* transcription_ended event before the next transcription_started: at no
\* time are two started events waiting for their ended event.
C37_StartedThenEndedBeforeNext ==
    ev_open <= 1

\* C38: a monitor thread exists (running, or finished and not yet joined)
\* only while recording_ is set, in continuous mode; start_continuous_monitor
\* never finds the previous thread unjoined and no two threads join it, so
\* the process is never terminated.
C38_OneMonitorWhileRecording ==
    /\ ~hk_crashed
    /\ continuous_thread_ # "none"
         => recording_ /\ transcription_mode = "continuous"

====
